---- MODULE Spec2Model ----
(***************************************************************************)
(* A model of the version / release-set algebra of compreq (formerly       *)
(* depcalc): version rounding at a level, release-set filters (age,        *)
(* count), successor inference and the bounds algebra of specifier sets.   *)
(*                                                                         *)
(* All operations are pure functions of their arguments.  Each             *)
(* specification below draws the arguments of one family of operations     *)
(* from a bounded set in its initial state (variable args), and each       *)
(* action applies one operation to them, recording which one ran (pc)      *)
(* and what it returned or whether it raised (result).                     *)
(***************************************************************************)
EXTENDS Integers, Sequences, FiniteSets, TLC

VARIABLES pc, args, result

vars == <<pc, args, result>>

(***************************************************************************)
(* Bounds of the model.                                                    *)
(***************************************************************************)
MaxEpoch == 1
MaxLen == 3
MaxSeg == 1
MaxQual == 1

(***************************************************************************)
(* packaging.version.Version: epoch, release segments and optional pre-,   *)
(* post- and dev-release numbers.  An absent qualifier is Absent.  The     *)
(* pre-release letter (a, b, rc) is not modelled: every pre-release is an  *)
(* alpha.  Local version labels are not modelled.                          *)
(***************************************************************************)
Absent == 0 - 1

Version(epoch, release, pre, post, dev) ==
    [epoch |-> epoch, release |-> release, pre |-> pre, post |-> post, dev |-> dev]

\* Version("1.2.3") style literal: a final release of epoch 0.
Final(release) == Version(0, release, Absent, Absent, Absent)

is_devrelease(v) == v.dev # Absent

is_prerelease(v) == v.dev # Absent \/ v.pre # Absent

is_postrelease(v) == v.post # Absent

RECURSIVE StripZeros(_)
StripZeros(s) ==
    IF s = <<>> THEN s
    ELSE IF s[Len(s)] = 0 THEN StripZeros(SubSeq(s, 1, Len(s) - 1))
    ELSE s

\* Python's tuple order on tuples of integers.
TupleLt(a, b) ==
    \/ \E k \in 1..Len(a) :
          /\ k <= Len(b)
          /\ \A j \in 1..(k - 1) : a[j] = b[j]
          /\ a[k] < b[k]
    \/ /\ Len(a) < Len(b)
       /\ \A j \in 1..Len(a) : a[j] = b[j]

\* The components of packaging's _cmpkey.  Each qualifier key is a pair
\* <<rank, number>>: rank 0 is NegativeInfinity, rank 2 is Infinity.
PreKey(v) ==
    IF v.pre = Absent /\ v.post = Absent /\ v.dev # Absent THEN <<0, 0>>
    ELSE IF v.pre = Absent THEN <<2, 0>>
    ELSE <<1, v.pre>>

PostKey(v) == IF v.post = Absent THEN <<0, 0>> ELSE <<1, v.post>>

DevKey(v) == IF v.dev = Absent THEN <<2, 0>> ELSE <<1, v.dev>>

CmpKey(v) ==
    [epoch |-> v.epoch, release |-> StripZeros(v.release),
     quals |-> PreKey(v) \o PostKey(v) \o DevKey(v)]

\* Version.__eq__ : 1.0 and 1.0.0 are the same version.
VersionEq(a, b) == CmpKey(a) = CmpKey(b)

\* Version.__lt__
VersionLt(a, b) ==
    LET ka == CmpKey(a)
        kb == CmpKey(b)
    IN  \/ ka.epoch < kb.epoch
        \/ /\ ka.epoch = kb.epoch
           /\ \/ TupleLt(ka.release, kb.release)
              \/ /\ ka.release = kb.release
                 /\ TupleLt(ka.quals, kb.quals)

VersionLe(a, b) == VersionLt(a, b) \/ VersionEq(a, b)

(***************************************************************************)
(* compreq.levels                                                          *)
(***************************************************************************)
IntLevel(level) == [kind |-> "IntLevel", level |-> level]

RelativeToFirstNonZeroLevel(relative_level) ==
    [kind |-> "RelativeToFirstNonZeroLevel", level |-> relative_level]

MAJOR == IntLevel(0)
MINOR == IntLevel(1)
MICRO == IntLevel(2)
REL_MAJOR == RelativeToFirstNonZeroLevel(0)
REL_MINOR == RelativeToFirstNonZeroLevel(1)
REL_MICRO == RelativeToFirstNonZeroLevel(3)

\* Zero-based positions of the non-zero release segments.
NonZeroPositions(version) ==
    {i \in 0..(Len(version.release) - 1) : version.release[i + 1] # 0}

Minimum(S) == CHOOSE x \in S : \A y \in S : x <= y

\* Level.index raises AssertionError: a relative level on an all-zero version.
index_fails(level, version) ==
    /\ level.kind = "RelativeToFirstNonZeroLevel"
    /\ NonZeroPositions(version) = {}

\* Mutant: a relative level counts from the last non-zero segment.
index_from_last_nonzero(level, version) ==
    IF level.kind = "IntLevel" THEN level.level
    ELSE (CHOOSE x \in NonZeroPositions(version) :
             \A y \in NonZeroPositions(version) : x >= y) + level.level

\* Level.index(version), a zero-based position, where it does not raise.
index(level, version) ==
    IF level.kind = "IntLevel" THEN level.level
    ELSE Minimum(NonZeroPositions(version)) + level.level

(***************************************************************************)
(* Results of an operation: a value, or the fact that it raised.           *)
(***************************************************************************)
NoVersion == Final(<<>>)

Ok(value) == [err |-> FALSE, value |-> value]

Raised(value) == [err |-> TRUE, value |-> value]

Zeros(n) == [j \in 1..n |-> 0]

(***************************************************************************)
(* compreq.rounding (ceil, floor): the module is imported by               *)
(* compreq/operators.py but is not part of the sources; modelled from      *)
(* section 4.1 of the specification.  A negative index counts from the     *)
(* end, as the caller in compreq/bounds.py expects.                        *)
(***************************************************************************)
PyIndex(i, n) == IF i < 0 THEN i + n ELSE i

ceil(level, version, keep_trailing_zeros) ==
    IF index_fails(level, version) THEN Raised(NoVersion)
    ELSE
        LET release == version.release
            n == Len(release)
            i == PyIndex(index(level, version), n)
        IN  IF i < 0 \/ i >= n THEN Raised(NoVersion)
            ELSE Ok(Version(version.epoch,
                            SubSeq(release, 1, i) \o <<release[i + 1] + 1>>
                                \o (IF keep_trailing_zeros THEN Zeros(n - i - 1) ELSE <<>>),
                            Absent, Absent, Absent))

floor(level, version, keep_trailing_zeros) ==
    IF index_fails(level, version) THEN Raised(NoVersion)
    ELSE
        LET release == version.release
            n == Len(release)
            i == index(level, version)
            kept == IF i + 1 < n THEN i + 1 ELSE n
        IN  IF i < 0 THEN Raised(NoVersion)
            ELSE Ok(Version(version.epoch,
                            SubSeq(release, 1, kept)
                                \o (IF keep_trailing_zeros THEN Zeros(n - kept) ELSE <<>>),
                            Absent, Absent, Absent))

(***************************************************************************)
(* compreq.operators: CeilLazyVersion / FloorLazyVersion.  The child lazy  *)
(* version is an eager one, which resolves to the wrapped version.         *)
(***************************************************************************)
\* Mutant: resolve rounds down instead of up.
CeilLazyVersion_resolve_calls_floor(level, version, keep_trailing_zeros) ==
    floor(level, version, keep_trailing_zeros)

CeilLazyVersion_resolve(level, version, keep_trailing_zeros) ==
    ceil(level, version, keep_trailing_zeros)

FloorLazyVersion_resolve(level, version, keep_trailing_zeros) ==
    floor(level, version, keep_trailing_zeros)

(***************************************************************************)
(* depcalc.operators: CeilLazyVersion / FloorLazyVersion.  The level is a  *)
(* plain int; the result is parsed back from the dotted release segments   *)
(* only (no epoch), and the segments after the level are always zeros.     *)
(***************************************************************************)
depcalc_CeilLazyVersion_resolve(level, version) ==
    LET release == version.release
        n == Len(release)
    IN  IF level >= n THEN Raised(NoVersion)
        ELSE Ok(Final(SubSeq(release, 1, level) \o <<release[level + 1] + 1>>
                          \o Zeros(n - level - 1)))

depcalc_FloorLazyVersion_resolve(level, version) ==
    LET release == version.release
        n == Len(release)
        kept == IF level + 1 < n THEN level + 1 ELSE n
    IN  Ok(Final(SubSeq(release, 1, kept) \o Zeros(n - kept)))

(***************************************************************************)
(* Rounding: the arguments and the operations.                             *)
(***************************************************************************)
Qualifiers == {Absent} \cup (1..MaxQual)

Releases == UNION {[1..n -> 0..MaxSeg] : n \in 1..MaxLen}

\* The versions of test_ceil_ver / test_floor_ver: 1.2.3, 1.2.3a4.dev5 and
\* 1!1.2.3a4.dev5 (0.1.0 and 1!0.1.0 are within the bounds).
TestVersions ==
    {Final(<<1, 2, 3>>),
     Version(0, <<1, 2, 3>>, 4, Absent, 5),
     Version(1, <<1, 2, 3>>, 4, Absent, 5)}

Versions ==
    {Version(e, r, pre, post, dev) :
        e \in 0..MaxEpoch, r \in Releases,
        pre \in Qualifiers, post \in Qualifiers, dev \in Qualifiers}
    \cup TestVersions

Levels ==
    {MAJOR, MINOR, MICRO, REL_MAJOR, REL_MINOR, REL_MICRO}
        \cup {IntLevel(i) : i \in 0..(MaxLen - 1)}
        \cup {RelativeToFirstNonZeroLevel(k) : k \in 0..(MaxLen - 1)}

RoundingArgs ==
    [level : Levels, version : Versions, keep_trailing_zeros : BOOLEAN]

InitRounding ==
    /\ pc = "start"
    /\ args \in RoundingArgs
    /\ result = Ok(NoVersion)

CeilVer ==
    /\ pc = "start"
    /\ pc' = "ceil_ver"
    /\ result' = CeilLazyVersion_resolve(args.level, args.version, args.keep_trailing_zeros)
    /\ UNCHANGED args

FloorVer ==
    /\ pc = "start"
    /\ pc' = "floor_ver"
    /\ result' = FloorLazyVersion_resolve(args.level, args.version, args.keep_trailing_zeros)
    /\ UNCHANGED args

\* depcalc's ceil_ver(level, version) takes an int level and has no
\* keep_trailing_zeros: it behaves as the zero-padding form.
DepcalcCeilVer ==
    /\ pc = "start"
    /\ args.level.kind = "IntLevel"
    /\ args.keep_trailing_zeros
    /\ pc' = "depcalc_ceil_ver"
    /\ result' = depcalc_CeilLazyVersion_resolve(args.level.level, args.version)
    /\ UNCHANGED args

DepcalcFloorVer ==
    /\ pc = "start"
    /\ args.level.kind = "IntLevel"
    /\ args.keep_trailing_zeros
    /\ pc' = "depcalc_floor_ver"
    /\ result' = depcalc_FloorLazyVersion_resolve(args.level.level, args.version)
    /\ UNCHANGED args

NextRounding == CeilVer \/ FloorVer \/ DepcalcCeilVer \/ DepcalcFloorVer

SpecRounding == InitRounding /\ [][NextRounding]_vars

(***************************************************************************)
(* Claims about rounding.                                                  *)
(***************************************************************************)
\* The level's index is a valid position in the version's release segments.
ValidPosition(level, version) ==
    /\ ~index_fails(level, version)
    /\ index(level, version) \in 0..(Len(version.release) - 1)

\* The release segments after the level's position are all zero.
TrailingZeros(level, version) ==
    \A j \in (index(level, version) + 2)..Len(version.release) : version.release[j] = 0

\* The plain final release X.Y.Z of a version's release number.
BaseRelease(version) ==
    Version(version.epoch, version.release, Absent, Absent, Absent)

\* C1 as stated: for every version V (pre-, dev-, post-releases and epochs
\* included), every level with a valid index and both values of
\* keep_trailing_zeros, floor(L, V) <= V <= ceil(L, V).
C1_FloorLeVersionLeCeil ==
    ValidPosition(args.level, args.version) =>
        /\ pc = "floor_ver" => ~result.err /\ VersionLe(result.value, args.version)
        /\ pc = "ceil_ver" => ~result.err /\ VersionLe(args.version, result.value)

\* C1 amended: V < ceil(L, V) always; floor(L, V) <= V except exactly when
\* every segment after the level is zero and V sorts below its own release
\* number X.Y.Z (a pre-release or a dev-release of it), where floor(L, V) > V.
C1_FloorCeilBracket ==
    ValidPosition(args.level, args.version) =>
        /\ pc = "ceil_ver" => ~result.err /\ VersionLt(args.version, result.value)
        /\ pc = "floor_ver" =>
              /\ ~result.err
              /\ VersionLe(result.value, args.version)
                    <=> ~(/\ TrailingZeros(args.level, args.version)
                          /\ VersionLt(args.version, BaseRelease(args.version)))
              /\ ~VersionLe(result.value, args.version)
                    => VersionLt(args.version, result.value)

\* C1 witness: floor at a relative level of an epoch-1 pre-release with a
\* non-zero later segment lies strictly below the version.
C1_Witness ==
    /\ pc = "floor_ver"
    /\ args.level.kind = "RelativeToFirstNonZeroLevel"
    /\ ValidPosition(args.level, args.version)
    /\ args.version.epoch = 1
    /\ args.version.pre # Absent
    /\ ~TrailingZeros(args.level, args.version)
    /\ ~result.err
    /\ VersionLt(result.value, args.version)

\* The rounded release segments that sections 4.1 describes.
CeilSegments(i, release, keep_trailing_zeros) ==
    [j \in 1..(IF keep_trailing_zeros THEN Len(release) ELSE i + 1) |->
        IF j <= i THEN release[j] ELSE IF j = i + 1 THEN release[j] + 1 ELSE 0]

FloorSegments(i, release, keep_trailing_zeros) ==
    [j \in 1..(IF keep_trailing_zeros THEN Len(release) ELSE i + 1) |->
        IF j <= i + 1 THEN release[j] ELSE 0]

\* C9: ceil(L, V, keep_trailing_zeros) has segments V[0:i] + [V[i] + 1], then
\* nothing or zeros up to V's length; it keeps V's epoch and has no pre-,
\* dev- or post-release qualifier.  Stated of depcalc's CeilLazyVersion.
C9_CeilSegmentsEpoch ==
    (pc = "depcalc_ceil_ver" /\ ValidPosition(args.level, args.version)) =>
        /\ ~result.err
        /\ result.value =
              Version(args.version.epoch,
                      CeilSegments(args.level.level, args.version.release,
                                   args.keep_trailing_zeros),
                      Absent, Absent, Absent)

\* C10: floor(L, V, keep_trailing_zeros) has segments V[0:i+1], then nothing
\* or zeros up to V's length; it keeps V's epoch and has no pre-, dev- or
\* post-release qualifier.  Stated of depcalc's FloorLazyVersion.
C10_FloorSegmentsEpoch ==
    (pc = "depcalc_floor_ver" /\ ValidPosition(args.level, args.version)) =>
        /\ ~result.err
        /\ result.value =
              Version(args.version.epoch,
                      FloorSegments(args.level.level, args.version.release,
                                    args.keep_trailing_zeros),
                      Absent, Absent, Absent)

(***************************************************************************)
(* compreq.releases: Release and ReleaseSet.  The dataclass order of       *)
(* Release compares (package, version, released_time, successor) in turn;  *)
(* within one ReleaseSet the package is the same.  Times are integers.     *)
(***************************************************************************)
Release(package, version, released_time) ==
    [package |-> package, version |-> version, released_time |-> released_time]

ReleaseLt(a, b) ==
    \/ VersionLt(a.version, b.version)
    \/ VersionEq(a.version, b.version) /\ a.released_time < b.released_time

\* min(release_set) and max(release_set) of a non-empty set.
MinRelease(S) == CHOOSE r \in S : \A q \in S : ~ReleaseLt(q, r)

MaxRelease(S) == CHOOSE r \in S : \A q \in S : ~ReleaseLt(r, q)

ReleaseSet(package, releases) == [package |-> package, releases |-> releases]

EmptyReleaseSet == ReleaseSet("compreq", {})

(***************************************************************************)
(* compreq.operators.CountLazyReleaseSet.resolve                           *)
(***************************************************************************)
\* A Python set of Versions holds one member per version value: the
\* members are kept in the form without trailing zero segments.
Canonical(v) == [v EXCEPT !.release = StripZeros(v.release)]

MaxVersion(S) == CHOOSE v \in S : \A w \in S : ~VersionLt(v, w)

\* sorted(versions, reverse=True)
RECURSIVE SortedReverse(_)
SortedReverse(S) ==
    IF S = {} THEN <<>>
    ELSE LET m == MaxVersion(S) IN <<m>> \o SortedReverse(S \ {m})

\* Line 491: the level is fixed against the maximum release.
CountFixedLevel(level, release_set) ==
    IntLevel(index(level, MaxRelease(release_set.releases).version))

\* Lines 492-494: the set of floors of all releases at the fixed level.
UniqueVersionsAtLevel(fixed_level, release_set) ==
    {Canonical(floor(fixed_level, r.version, FALSE).value) : r \in release_set.releases}

\* Python's seq[:n] for n >= 0.
Take(seq, n) == SubSeq(seq, 1, IF n < Len(seq) THEN n ELSE Len(seq))

\* Mutant: the first of the n largest floors, not the last.
CountMinVersion_first(unique_versions_at_level, n) ==
    Take(SortedReverse(unique_versions_at_level), n)[1]

\* Mutant: one floor too many is taken.
CountMinVersion_off_by_one(unique_versions_at_level, n) ==
    LET first_n == Take(SortedReverse(unique_versions_at_level), n + 1)
    IN  first_n[Len(first_n)]

\* Line 495: sorted(unique_versions_at_level, reverse=True)[: n][-1]
CountMinVersion(unique_versions_at_level, n) ==
    LET first_n == Take(SortedReverse(unique_versions_at_level), n)
    IN  first_n[Len(first_n)]

\* Mutant: releases equal to min_version are dropped (> for >=).
CountKeep_strict(release_set, min_version) ==
    {r \in release_set.releases : VersionLt(min_version, r.version)}

\* Line 496: the releases at or above min_version.
CountKeep(release_set, min_version) ==
    {r \in release_set.releases : VersionLe(min_version, r.version)}

CountLazyReleaseSet_resolve(level, n, release_set) ==
    IF release_set.releases = {} THEN Raised(EmptyReleaseSet)
    ELSE IF index_fails(level, MaxRelease(release_set.releases).version)
    THEN Raised(EmptyReleaseSet)
    ELSE IF n = 0 THEN Raised(EmptyReleaseSet)
    ELSE
        LET fixed_level == CountFixedLevel(level, release_set)
            unique_versions_at_level == UniqueVersionsAtLevel(fixed_level, release_set)
            min_version == CountMinVersion(unique_versions_at_level, n)
        IN  Ok(ReleaseSet(release_set.package, CountKeep(release_set, min_version)))

(***************************************************************************)
(* Count: the arguments and the operation.                                 *)
(***************************************************************************)
MaxReleases == 3
MaxN == 3

Pre(release, n) == Version(0, release, n, Absent, Absent)

Dev(release, n) == Version(0, release, Absent, Absent, n)

\* Final, pre- and dev-releases on several major and minor lines, with and
\* without a leading zero segment and an epoch.
CountVersions ==
    {Final(<<0, 0, 0>>), Final(<<0, 1, 0>>), Final(<<0, 2, 1>>),
     Dev(<<1, 0, 0>>, 1), Pre(<<1, 0, 0>>, 1), Final(<<1, 0, 0>>), Final(<<1, 0, 1>>),
     Pre(<<1, 1, 0>>, 1), Final(<<1, 1>>), Final(<<2, 0, 0>>),
     Version(1, <<0, 1, 0>>, Absent, Absent, Absent),
     Version(1, <<1, 0, 0>>, Absent, Absent, 1)}

FakeReleases(versions) == {Release("compreq", v, 0) : v \in versions}

\* The releases of the end-to-end scenario: 1.0.0 .. 1.4.0 and 2.0.0.
ScenarioReleases ==
    FakeReleases({Final(<<1, k, 0>>) : k \in 0..4} \cup {Final(<<2, 0, 0>>)})

RECURSIVE SubsetsUpTo(_, _)
SubsetsUpTo(S, k) ==
    IF k = 0 THEN {{}}
    ELSE LET smaller == SubsetsUpTo(S, k - 1)
         IN  smaller \cup {T \cup {x} : T \in smaller, x \in S}

CountLevels == {MAJOR, MINOR, MICRO, REL_MAJOR, REL_MINOR, REL_MICRO}

CountArgs ==
    [level : CountLevels,
     n : 0..MaxN,
     release_set :
        {ReleaseSet("compreq", T) :
            T \in SubsetsUpTo(FakeReleases(CountVersions), MaxReleases)
                    \cup {ScenarioReleases}}]

InitCount ==
    /\ pc = "start"
    /\ args \in CountArgs
    /\ result = Ok(EmptyReleaseSet)

Count ==
    /\ pc = "start"
    /\ pc' = "count"
    /\ result' = CountLazyReleaseSet_resolve(args.level, args.n, args.release_set)
    /\ UNCHANGED args

NextCount == Count

SpecCount == InitCount /\ [][NextCount]_vars

(***************************************************************************)
(* Claims about count.                                                     *)
(***************************************************************************)
\* count is applied to a non-empty set with n >= 1 and a level whose index
\* is defined for the maximum version.
CountApplied ==
    /\ pc = "count"
    /\ args.n >= 1
    /\ args.release_set.releases # {}
    /\ ~index_fails(args.level, MaxRelease(args.release_set.releases).version)

CountVersionsOf(S) == {r.version : r \in S}

\* The index the level has for the maximum version of the set S.
TopIndex(level, S) == index(level, MaxVersion(CountVersionsOf(S)))

\* The floor of a version at index i, without trailing zeros.
BucketOf(i, v) == Canonical(floor(IntLevel(i), v, FALSE).value)

BucketsOf(level, S) ==
    LET i == TopIndex(level, S) IN {BucketOf(i, r.version) : r \in S}

\* The smallest of the n largest buckets; the smallest bucket of all when
\* there are fewer than n.
SmallestKeptBucket(buckets, n) ==
    IF Cardinality(buckets) < n
    THEN CHOOSE m \in buckets : \A b \in buckets : ~VersionLt(b, m)
    ELSE CHOOSE m \in buckets : Cardinality({b \in buckets : VersionLt(m, b)}) = n - 1

AtOrAbove(S, m) == {r \in S : ~VersionLt(r.version, m)}

\* The releases of S on the level lines at or above the line m.
OnLinesFrom(level, S, m) ==
    LET i == TopIndex(level, S)
    IN  {r \in S : ~VersionLt(BucketOf(i, r.version), m)}

\* C3 as stated: count(level, n, S) is exactly {r in S : r.version >= m}, m
\* the smallest of the n largest distinct floors, so every release of the n
\* most recent level lines is kept.
C3_CountKeepsRecentLines ==
    CountApplied =>
        LET S == args.release_set.releases
            m == SmallestKeptBucket(BucketsOf(args.level, S), args.n)
        IN  /\ ~result.err
            /\ result.value = ReleaseSet(args.release_set.package, AtOrAbove(S, m))
            /\ OnLinesFrom(args.level, S, m) \subseteq result.value.releases

\* C3 amended: count(level, n, S) is exactly {r in S : r.version >= m}; it
\* holds only releases of the n most recent level lines, and all of them
\* except those that sort below m (pre- and dev-releases of the line m).
C3_CountAtOrAboveFloor ==
    CountApplied =>
        LET S == args.release_set.releases
            i == TopIndex(args.level, S)
            m == SmallestKeptBucket(BucketsOf(args.level, S), args.n)
            lines == OnLinesFrom(args.level, S, m)
        IN  /\ ~result.err
            /\ result.value = ReleaseSet(args.release_set.package, AtOrAbove(S, m))
            /\ result.value.releases \subseteq lines
            /\ \A r \in lines \ result.value.releases :
                  /\ BucketOf(i, r.version) = m
                  /\ VersionLt(r.version, m)
                  /\ is_prerelease(r.version)

\* C3 witness: more than n buckets, more releases kept than n, some dropped.
C3_Witness ==
    /\ CountApplied
    /\ Cardinality(BucketsOf(args.level, args.release_set.releases)) > args.n
    /\ ~result.err
    /\ Cardinality(result.value.releases) > args.n
    /\ result.value.releases # args.release_set.releases

FewBuckets ==
    /\ CountApplied
    /\ Cardinality(BucketsOf(args.level, args.release_set.releases)) < args.n

\* C4 as stated: with fewer than n distinct buckets count returns S itself,
\* whatever mix of final, pre- and dev-releases S holds.
C4_FewBucketsWholeSet ==
    FewBuckets => ~result.err /\ result.value = args.release_set

\* C4 amended: with fewer than n distinct buckets count returns S without
\* the releases that sort below every bucket floor; that is S itself
\* exactly when the smallest version of S is not below its own floor, as
\* it is whenever that version has no pre- or dev-release qualifier.
C4_FewBucketsAboveSmallestFloor ==
    FewBuckets =>
        LET S == args.release_set.releases
            i == TopIndex(args.level, S)
            buckets == BucketsOf(args.level, S)
            smallest == MinRelease(S).version
        IN  /\ ~result.err
            /\ result.value.package = args.release_set.package
            /\ result.value.releases =
                  {r \in S : \E b \in buckets : ~VersionLt(r.version, b)}
            /\ result.value = args.release_set
                  <=> ~VersionLt(smallest, BucketOf(i, smallest))
            /\ ~is_prerelease(smallest) => result.value = args.release_set

\* C4 witness: fewer buckets than n, a set with a pre- or dev-release that
\* is returned whole.
C4_Witness ==
    /\ FewBuckets
    /\ Cardinality(BucketsOf(args.level, args.release_set.releases)) >= 2
    /\ \E r \in args.release_set.releases : is_prerelease(r.version)
    /\ result.value = args.release_set

IsScenario ==
    /\ pc = "count"
    /\ args.level = MINOR
    /\ args.n = 3
    /\ args.release_set.releases = ScenarioReleases

\* C5 as stated: for {1.0.0, ..., 1.4.0, 2.0.0}, count(MINOR, 3, releases)
\* is exactly the releases with version >= 1.2.0.
C5_ScenarioFrom_1_2 ==
    IsScenario =>
        /\ ~result.err
        /\ result.value.releases =
              {r \in ScenarioReleases : VersionLe(Final(<<1, 2, 0>>), r.version)}

\* C5 amended: the three most recent minor lines are 2.0, 1.4 and 1.3, so
\* the result is exactly the releases with version >= 1.3.0.
C5_ScenarioFrom_1_3 ==
    IsScenario =>
        /\ ~result.err
        /\ result.value.releases =
              {r \in ScenarioReleases : VersionLe(Final(<<1, 3, 0>>), r.version)}

\* C5 witness: the scenario has been resolved.
C5_Witness == IsScenario /\ ~result.err /\ result.value.package = "compreq"

(***************************************************************************)
(* compreq.operators: MinAgeLazyReleaseSet / MaxAgeLazyReleaseSet.         *)
(* Times and ages are integers; a node without its own now uses the        *)
(* context's.                                                              *)
(***************************************************************************)
\* now = self.now or context.now
NowOf(now, context_now) == IF now = Absent THEN context_now ELSE now

\* Mutant: no fallback when nothing is old enough (depcalc's min_age).
MinAgeLazyReleaseSet_resolve_no_fallback(now, min_age, allow_empty, release_set, context_now) ==
    LET max_time == NowOf(now, context_now) - min_age
    IN  Ok(ReleaseSet(release_set.package,
                      {r \in release_set.releases : r.released_time <= max_time}))

MinAgeLazyReleaseSet_resolve(now, min_age, allow_empty, release_set, context_now) ==
    LET max_time == NowOf(now, context_now) - min_age
        filtered == {r \in release_set.releases : r.released_time <= max_time}
    IN  IF ~(allow_empty \/ filtered # {})
        THEN IF release_set.releases = {} THEN Raised(EmptyReleaseSet)
             ELSE Ok(ReleaseSet(release_set.package, {MinRelease(release_set.releases)}))
        ELSE Ok(ReleaseSet(release_set.package, filtered))

MaxAgeLazyReleaseSet_resolve(now, max_age, allow_empty, release_set, context_now) ==
    LET min_time == NowOf(now, context_now) - max_age
        filtered == {r \in release_set.releases : r.released_time >= min_time}
    IN  IF ~(allow_empty \/ filtered # {})
        THEN IF release_set.releases = {} THEN Raised(EmptyReleaseSet)
             ELSE Ok(ReleaseSet(release_set.package, {MaxRelease(release_set.releases)}))
        ELSE Ok(ReleaseSet(release_set.package, filtered))

(***************************************************************************)
(* Age filters: the arguments and the operations.                          *)
(***************************************************************************)
MaxTime == 2
MaxAge == 2

AgeVersions ==
    {Final(<<1, 0, 0>>), Final(<<1, 1, 0>>), Dev(<<2, 0, 0>>, 1), Final(<<2, 0, 0>>)}

\* Release sets in which every version was released once, at any time.
AgeReleaseSets ==
    {ReleaseSet("compreq", {Release("compreq", v, t[v]) : v \in vs}) :
        vs \in SubsetsUpTo(AgeVersions, MaxReleases), t \in [AgeVersions -> 0..MaxTime]}

AgeArgs ==
    [now : {Absent} \cup (0..MaxTime),
     age : 0..MaxAge,
     allow_empty : BOOLEAN,
     release_set : AgeReleaseSets,
     context_now : {MaxTime}]

InitAge ==
    /\ pc = "start"
    /\ args \in AgeArgs
    /\ result = Ok(EmptyReleaseSet)

MinAge ==
    /\ pc = "start"
    /\ pc' = "min_age"
    /\ result' = MinAgeLazyReleaseSet_resolve(args.now, args.age, args.allow_empty,
                                              args.release_set, args.context_now)
    /\ UNCHANGED args

MaxAgeOp ==
    /\ pc = "start"
    /\ pc' = "max_age"
    /\ result' = MaxAgeLazyReleaseSet_resolve(args.now, args.age, args.allow_empty,
                                              args.release_set, args.context_now)
    /\ UNCHANGED args

NextAge == MinAge \/ MaxAgeOp

SpecAge == InitAge /\ [][NextAge]_vars

(***************************************************************************)
(* Claims about the age filters.                                           *)
(***************************************************************************)
AgeNow == NowOf(args.now, args.context_now)

\* The releases of the argument set that pass the age filter that ran.
PassAge ==
    IF pc = "min_age"
    THEN {r \in args.release_set.releases : r.released_time <= AgeNow - args.age}
    ELSE {r \in args.release_set.releases : r.released_time >= AgeNow - args.age}

AgeApplied == pc \in {"min_age", "max_age"} /\ args.release_set.releases # {}

\* C6: for a non-empty input set, every now and every age, min_age and
\* max_age with allow_empty=False resolve to a non-empty release set.
C6_AgeNeverEmpty ==
    (AgeApplied /\ ~args.allow_empty) =>
        /\ ~result.err
        /\ result.value.releases # {}
        /\ result.value.releases \subseteq args.release_set.releases

\* C6 witness: min_age without allow_empty where no release is old enough.
C6_Witness ==
    /\ pc = "min_age"
    /\ ~args.allow_empty
    /\ Cardinality(args.release_set.releases) >= 2
    /\ PassAge = {}
    /\ result.value.releases # {}

\* C7: when no release passes the filter, min_age falls back to the single
\* release with the earliest released_time and max_age to the one with the
\* latest released_time if allow_empty is false; both resolve to the empty
\* set if it is true.
C7_FallbackByReleaseTime ==
    (AgeApplied /\ PassAge = {}) =>
        /\ ~result.err
        /\ args.allow_empty => result.value.releases = {}
        /\ ~args.allow_empty =>
              \E r \in args.release_set.releases :
                  /\ result.value.releases = {r}
                  /\ \A q \in args.release_set.releases :
                        IF pc = "min_age"
                        THEN r.released_time <= q.released_time
                        ELSE r.released_time >= q.released_time

\* C7 reads "oldest" and "newest" by released_time; the fallback taken is
\* min(release_set) / max(release_set), the dataclass order of Release.

(***************************************************************************)
(* compreq.releases.infer_successor                                        *)
(***************************************************************************)
\* None, where a Version is expected.
None == NoVersion

\* Mutant: a pre-release does not become the successor of later dev-releases.
InferStep_pre_keeps_next_dev(st, version) ==
    IF is_devrelease(version)
    THEN [st EXCEPT !.result = @ @@ (version :> st.next_dev), !.next_dev = version]
    ELSE IF is_prerelease(version)
    THEN [st EXCEPT !.result = @ @@ (version :> st.next_pre), !.next_pre = version]
    ELSE [st EXCEPT !.result = @ @@ (version :> st.next_main),
                    !.next_main = version, !.next_pre = version, !.next_dev = version]

\* Lines 36-44: the body of the loop.
InferStep(st, version) ==
    IF is_devrelease(version)
    THEN [st EXCEPT !.result = @ @@ (version :> st.next_dev), !.next_dev = version]
    ELSE IF is_prerelease(version)
    THEN [st EXCEPT !.result = @ @@ (version :> st.next_pre),
                    !.next_pre = version, !.next_dev = version]
    ELSE [st EXCEPT !.result = @ @@ (version :> st.next_main),
                    !.next_main = version, !.next_pre = version, !.next_dev = version]

RECURSIVE InferLoop(_, _, _)
InferLoop(sorted, k, st) ==
    IF k > Len(sorted) THEN st.result
    ELSE InferLoop(sorted, k + 1, InferStep(st, sorted[k]))

infer_successor(versions) ==
    InferLoop(SortedReverse(versions), 1,
              [next_main |-> None, next_pre |-> None, next_dev |-> None, result |-> <<>>])

(***************************************************************************)
(* Successor inference: the arguments and the operation.                   *)
(***************************************************************************)
\* Final, pre-, dev- and post-releases, qualifiers combined, two epochs:
\* 2.0.0, 2.1.0a1, 2.1.0a2.dev1, 2.1.0a2, 2.1.0.dev1, 2.1.0, 2.1.0.post1,
\* 2.1.0.post1.dev1, 3.0.0, 1!1.0.0, 1!1.1.0a1.
SuccessorVersions ==
    {Final(<<2, 0, 0>>), Pre(<<2, 1, 0>>, 1), Version(0, <<2, 1, 0>>, 2, Absent, 1),
     Pre(<<2, 1, 0>>, 2), Dev(<<2, 1, 0>>, 1), Final(<<2, 1, 0>>),
     Version(0, <<2, 1, 0>>, Absent, 1, Absent), Version(0, <<2, 1, 0>>, Absent, 1, 1),
     Final(<<3, 0, 0>>), Version(1, <<1, 0, 0>>, Absent, Absent, Absent),
     Version(1, <<1, 1, 0>>, 1, Absent, Absent)}

InitSuccessor ==
    /\ pc = "start"
    /\ args \in [versions : SubsetsUpTo(SuccessorVersions, MaxReleases)]
    /\ result = Ok(<<>>)

InferSuccessor ==
    /\ pc = "start"
    /\ pc' = "infer_successor"
    /\ result' = Ok(infer_successor(args.versions))
    /\ UNCHANGED args

NextSuccessor == InferSuccessor

SpecSuccessor == InitSuccessor /\ [][NextSuccessor]_vars

(***************************************************************************)
(* Claims about successor inference.                                       *)
(***************************************************************************)
\* Stability class: dev-release 0 (any dev qualifier), pre-release 1,
\* final release (post-releases included) 2.
Stability(v) == IF v.dev # Absent THEN 0 ELSE IF v.pre # Absent THEN 1 ELSE 2

\* The versions greater than v that are at least as stable.
Candidates(v, versions) ==
    {w \in versions : VersionLt(v, w) /\ Stability(w) >= Stability(v)}

\* C8: infer_successor maps each version v to the smallest version w > v
\* whose stability class is at least v's, and to None when there is none.
C8_SuccessorIsNextAsStable ==
    pc = "infer_successor" =>
        /\ ~result.err
        /\ DOMAIN result.value = args.versions
        /\ \A v \in args.versions :
              LET c == Candidates(v, args.versions)
              IN  IF c = {} THEN result.value[v] = None
                  ELSE /\ result.value[v] \in c
                       /\ \A w \in c : ~VersionLt(w, result.value[v])

\* C8 witness: a dev-release is followed by a pre-release and a final
\* release, and a final release skips both.
C8_Witness ==
    /\ pc = "infer_successor"
    /\ \E d \in args.versions, p \in args.versions :
          /\ Stability(d) = 0
          /\ Stability(p) = 1
          /\ result.value[d] = p
          /\ result.value[p] # None
          /\ Stability(result.value[p]) = 2

(***************************************************************************)
(* packaging.specifiers: a Specifier is an operator and a version, a       *)
(* SpecifierSet a set of Specifiers that a version must all satisfy.       *)
(* The specifier versions of the model are final releases, so a            *)
(* SpecifierSet admits no pre-release; versions are tried against it from  *)
(* the final and post-releases.                                            *)
(***************************************************************************)
Specifier(operator, version) == [operator |-> operator, version |-> version]

Operators == {"<", "<=", ">", ">=", "==", "~=", "!="}

\* Version(v.base_version): epoch and release segments only.
BaseVersion(v) == Version(v.epoch, v.release, Absent, Absent, Absent)

Segment(release, j) == IF j <= Len(release) THEN release[j] ELSE 0

\* "== prefix.*", prefix being all but the last release segment of the
\* specifier's version.
MatchesPrefix(prospective, spec) ==
    /\ prospective.epoch = spec.epoch
    /\ \A j \in 1..(Len(spec.release) - 1) :
          Segment(prospective.release, j) = spec.release[j]

\* The version string of a specifier may end in ".*" (with == and !=):
\* "1.*" is kept as the release <<1, Star>>.
Star == 0 - 1

Wildcard(release) == Version(0, release \o <<Star>>, Absent, Absent, Absent)

IsWildcard(v) == Len(v.release) > 0 /\ v.release[Len(v.release)] = Star

\* Specifier.contains for a prospective version that is not a pre-release.
SpecifierContains(specifier, prospective) ==
    LET spec == specifier.version
    IN  CASE IsWildcard(spec) /\ specifier.operator = "==" -> MatchesPrefix(prospective, spec)
          [] IsWildcard(spec) /\ specifier.operator = "!=" -> ~MatchesPrefix(prospective, spec)
          [] specifier.operator = "===" -> prospective = spec
          [] specifier.operator = "<=" -> VersionLe(prospective, spec)
          [] specifier.operator = ">=" -> VersionLe(spec, prospective)
          [] specifier.operator = "==" -> VersionEq(prospective, spec)
          [] specifier.operator = "!=" -> ~VersionEq(prospective, spec)
          [] specifier.operator = "<" -> VersionLt(prospective, spec)
          [] specifier.operator = ">" ->
                /\ VersionLt(spec, prospective)
                /\ ~(/\ ~is_postrelease(spec)
                     /\ is_postrelease(prospective)
                     /\ VersionEq(BaseVersion(prospective), BaseVersion(spec)))
          [] specifier.operator = "~=" ->
                VersionLe(spec, prospective) /\ MatchesPrefix(prospective, spec)

\* SpecifierSet.contains
SpecifierSetContains(specifier_set, prospective) ==
    /\ ~is_prerelease(prospective)
    /\ \A specifier \in specifier_set : SpecifierContains(specifier, prospective)

(***************************************************************************)
(* compreq.bounds                                                          *)
(***************************************************************************)
Bounds(specifier_set, upper, upper_inclusive, lower, lower_inclusive, exclusions) ==
    [specifier_set |-> specifier_set,
     upper |-> upper, upper_inclusive |-> upper_inclusive,
     lower |-> lower, lower_inclusive |-> lower_inclusive,
     exclusions |-> exclusions]

NoBounds == Bounds({}, None, FALSE, None, FALSE, {})

\* Lines 56-92: one specifier folded into the running bounds.
BoundsStep(b, specifier) ==
    LET version == specifier.version
        operator == specifier.operator
    IN  CASE operator = ">" ->
                IF b.lower = None \/ VersionLe(b.lower, version)
                THEN [b EXCEPT !.lower = version, !.lower_inclusive = FALSE]
                ELSE b
          [] operator = ">=" ->
                IF b.lower = None \/ VersionLt(b.lower, version)
                THEN [b EXCEPT !.lower = version, !.lower_inclusive = TRUE]
                ELSE b
          [] operator = "<" ->
                IF b.upper = None \/ VersionLe(version, b.upper)
                THEN [b EXCEPT !.upper = version, !.upper_inclusive = FALSE]
                ELSE b
          [] operator = "<=" ->
                IF b.upper = None \/ VersionLt(version, b.upper)
                THEN [b EXCEPT !.upper = version, !.upper_inclusive = TRUE]
                ELSE b
          [] operator = "==" ->
                LET b1 == IF b.lower = None \/ VersionLt(b.lower, version)
                          THEN [b EXCEPT !.lower = version, !.lower_inclusive = TRUE]
                          ELSE b
                IN  IF b1.upper = None \/ VersionLt(version, b1.upper)
                    THEN [b1 EXCEPT !.upper = version, !.upper_inclusive = TRUE]
                    ELSE b1
          [] operator = "~=" ->
                LET vupper == ceil(IntLevel(0 - 1), version, FALSE).value
                    b1 == IF b.upper = None \/ VersionLe(vupper, b.upper)
                          THEN [b EXCEPT !.upper = vupper, !.upper_inclusive = FALSE]
                          ELSE b
                IN  IF b1.lower = None \/ VersionLt(b1.lower, version)
                    THEN [b1 EXCEPT !.lower = version, !.lower_inclusive = TRUE]
                    ELSE b1
          [] operator = "!=" ->
                [b EXCEPT !.exclusions = @ \cup {Canonical(version)}]

RECURSIVE BoundsLoop(_, _, _)
BoundsLoop(specifiers, k, b) ==
    IF k > Len(specifiers) THEN b
    ELSE BoundsLoop(specifiers, k + 1, BoundsStep(b, specifiers[k]))

\* Mutant: the exclusions are not pruned against the upper bound.
BoundsPruneUpper_keeps_exclusions(b) ==
    IF b.upper = None THEN b
    ELSE [b EXCEPT !.upper_inclusive = @ /\ Canonical(b.upper) \notin b.exclusions]

\* Lines 94-101: the upper bound against the exclusions.
BoundsPruneUpper(b) ==
    IF b.upper = None THEN b
    ELSE
        LET inclusive == b.upper_inclusive /\ Canonical(b.upper) \notin b.exclusions
        IN  [b EXCEPT !.upper_inclusive = inclusive,
                      !.exclusions =
                          IF inclusive THEN {e \in @ : VersionLe(e, b.upper)}
                          ELSE {e \in @ : VersionLt(e, b.upper)}]

\* Lines 103-110: the lower bound against the exclusions.
BoundsPruneLower(b) ==
    IF b.lower = None THEN b
    ELSE
        LET inclusive == b.lower_inclusive /\ Canonical(b.lower) \notin b.exclusions
        IN  [b EXCEPT !.lower_inclusive = inclusive,
                      !.exclusions =
                          IF inclusive THEN {e \in @ : VersionLe(b.lower, e)}
                          ELSE {e \in @ : VersionLt(b.lower, e)}]

\* Lines 112-116: the assertion that the interval is not empty.
BoundsEmpty(b) ==
    /\ b.upper # None
    /\ b.lower # None
    /\ IF b.upper_inclusive /\ b.lower_inclusive
       THEN ~VersionLe(b.lower, b.upper)
       ELSE ~VersionLt(b.lower, b.upper)

\* Line 56: Version(specifier.version) raises InvalidVersion for "1.*".
Version_parse_fails(version) == IsWildcard(version)

\* Lines 56 and 91-92: the atom cannot be folded; the loop raises.
BoundsStep_fails(specifier) ==
    \/ Version_parse_fails(specifier.version)
    \/ specifier.operator \notin Operators

\* get_bounds of a specifier set iterated in the order of the sequence.
get_bounds(specifier_set, specifiers) ==
    IF \E k \in 1..Len(specifiers) : BoundsStep_fails(specifiers[k])
    THEN Raised(NoBounds)
    ELSE
        LET folded == BoundsLoop(specifiers, 1,
                                 Bounds(specifier_set, None, FALSE, None, FALSE, {}))
            b == BoundsPruneLower(BoundsPruneUpper(folded))
        IN  IF BoundsEmpty(b) THEN Raised(NoBounds) ELSE Ok(b)

\* Bounds.upper_specifier_set(False)
upper_specifier_set(b) ==
    IF b.upper = None THEN {}
    ELSE IF b.upper_inclusive THEN {Specifier("<=", b.upper)}
    ELSE {Specifier("<", b.upper)}

\* Bounds.exclusions_specifier_set
exclusions_specifier_set(b) == {Specifier("!=", v) : v \in b.exclusions}

\* Bounds.lower_specifier_set(True)
lower_specifier_set(b) ==
    (IF b.lower = None THEN {}
     ELSE IF b.lower_inclusive THEN {Specifier(">=", b.lower)}
     ELSE {Specifier(">", b.lower)})
        \cup exclusions_specifier_set(b)

\* Bounds.minimal_specifier_set()
minimal_specifier_set(b) == upper_specifier_set(b) \cup lower_specifier_set(b)

(***************************************************************************)
(* Bounds: the arguments and the operations.                               *)
(***************************************************************************)
MaxAtoms == 2

\* The versions named by specifiers: 1.0, 1.1, 1.1.1 and 2.0.
SpecifierVersions ==
    {Final(<<1, 0>>), Final(<<1, 1>>), Final(<<1, 1, 1>>), Final(<<2, 0>>)}

Specifiers == {Specifier(op, v) : op \in Operators, v \in SpecifierVersions}

\* "==1.*", "!=1.1.*" and "===1.0".
OtherSpecifiers ==
    {Specifier("==", Wildcard(<<1>>)), Specifier("!=", Wildcard(<<1, 1>>)),
     Specifier("===", Final(<<1, 0>>))}

\* The sequences that list the members of a finite set once each.
Orders(S) ==
    {f \in [1..Cardinality(S) -> S] : \A i, j \in 1..Cardinality(S) : f[i] = f[j] => i = j}

InitBounds ==
    /\ pc = "start"
    /\ args \in [specifier_set : SubsetsUpTo(Specifiers \cup OtherSpecifiers, MaxAtoms)]
    /\ result = Ok(NoBounds)

GetBounds ==
    /\ pc = "start"
    /\ pc' = "get_bounds"
    /\ \E specifiers \in Orders(args.specifier_set) :
          result' = get_bounds(args.specifier_set, specifiers)
    /\ UNCHANGED args

MinimalSpecifierSet ==
    /\ pc = "get_bounds"
    /\ ~result.err
    /\ pc' = "minimal_specifier_set"
    /\ result' = Ok(minimal_specifier_set(result.value))
    /\ UNCHANGED args

NextBounds == GetBounds \/ MinimalSpecifierSet

SpecBounds == InitBounds /\ [][NextBounds]_vars

(***************************************************************************)
(* Claims about bounds.                                                    *)
(***************************************************************************)
\* The versions tried against specifier sets: final and post-releases
\* around the specifier versions.
ProbeReleases ==
    {<<a>> : a \in 0..3} \cup {<<a, b>> : a \in 0..3, b \in 0..3}
        \cup {<<a, b, c>> : a \in 1..2, b \in 0..2, c \in 0..2}

Probes ==
    {Version(0, r, Absent, post, Absent) : r \in ProbeReleases, post \in {Absent, 1}}

Accepted(specifier_set) == {p \in Probes : SpecifierSetContains(specifier_set, p)}

\* No atom can be left out without admitting more versions, and some
\* version is admitted.
NoRedundantOrConflictingAtoms(specifier_set) ==
    /\ Accepted(specifier_set) # {}
    /\ \A a \in specifier_set : Accepted(specifier_set \ {a}) # Accepted(specifier_set)

\* C2: for a specifier set S without redundant or conflicting atoms,
\* get_bounds(S).minimal_specifier_set() accepts exactly the versions S does.
C2_MinimalSpecifierSetRoundTrip ==
    NoRedundantOrConflictingAtoms(args.specifier_set) =>
        /\ pc = "get_bounds" => ~result.err
        /\ pc = "minimal_specifier_set" =>
              Accepted(result.value) = Accepted(args.specifier_set)

(***************************************************************************)
(* Levels: Level.index applied to a version.                               *)
(***************************************************************************)
Level_index(level, version) ==
    IF index_fails(level, version) THEN Raised(0) ELSE Ok(index(level, version))

LevelArgs == [level : Levels, version : Versions]

InitLevels ==
    /\ pc = "start"
    /\ args \in LevelArgs
    /\ result = Ok(0)

LevelIndex ==
    /\ pc = "start"
    /\ pc' = "index"
    /\ result' = Level_index(args.level, args.version)
    /\ UNCHANGED args

NextLevels == LevelIndex

SpecLevels == InitLevels /\ [][NextLevels]_vars

\* The zero-based position i holds the first non-zero release segment.
FirstNonZeroAt(release, i) ==
    /\ i + 1 \in 1..Len(release)
    /\ release[i + 1] # 0
    /\ \A j \in 1..i : release[j] = 0

\* C11: the index of a relative level with offset k is the position of the
\* first non-zero release segment plus k, whatever the epoch and the
\* qualifiers, and fails when every release segment is zero; the index of
\* an absolute level is its fixed value.
C11_LevelIndex ==
    pc = "index" =>
        /\ result = Level_index(args.level, Final(args.version.release))
        /\ IF args.level.kind = "IntLevel"
           THEN result = Ok(args.level.level)
           ELSE /\ result.err <=> (\A j \in 1..Len(args.version.release) :
                                      args.version.release[j] = 0)
                /\ \A i \in 0..(Len(args.version.release) - 1) :
                      FirstNonZeroAt(args.version.release, i) =>
                          result = Ok(i + args.level.level)

\* C11 witness: a relative level with a positive offset on a version with an
\* epoch, qualifiers, a leading zero segment and two non-zero segments.
C11_Witness ==
    /\ pc = "index"
    /\ args.level.kind = "RelativeToFirstNonZeroLevel"
    /\ args.level.level = 1
    /\ args.version.epoch = 1
    /\ args.version.dev # Absent
    /\ args.version.release = <<0, 1, 1>>
    /\ result = Ok(2)

(***************************************************************************)
(* compreq.lazy: requirement fragments and compose.                        *)
(*                                                                         *)
(* A fragment is a record of the five fields of LazyRequirement, with the  *)
(* frozenset of LazySpecifiers for `specifier`, and a `kind` for its       *)
(* Python type.  A specifier or specifier set has the other fields unset,  *)
(* which is what get_lazy_requirement makes of it.  A Marker is the        *)
(* sequence of the tokens of its string, by which Markers compare.         *)
(***************************************************************************)
Unset == "<None>"

NoMarker == <<>>

Fragment(kind, package, url, extras, specifiers, marker) ==
    [kind |-> kind, package |-> package, url |-> url, extras |-> extras,
     specifiers |-> specifiers, marker |-> marker]

LazySpecifierSet(specifiers) ==
    Fragment("LazySpecifierSet", Unset, Unset, {}, specifiers, NoMarker)

LazyRequirement(package, url, extras, specifiers, marker) ==
    Fragment("LazyRequirement", package, url, extras, specifiers, marker)

EMPTY_REQUIREMENT == LazyRequirement(Unset, Unset, {}, {}, NoMarker)

\* Mutant: __post_init__ without its assertion.
post_init_never_fails(url, specifiers) == FALSE

\* LazyRequirement.__post_init__: the assertion fails.
post_init_fails(url, specifiers) == ~(url = Unset \/ specifiers = {})

RequirementKinds == {"Requirement", "LazyRequirement"}

\* SpecifierSet(str) raises InvalidSpecifier: the text names a package.
get_lazy_specifier_set_fails(f) == f.kind = "str" /\ f.package # Unset

get_lazy_specifier_set(f) == LazySpecifierSet(f.specifiers)

\* Requirement(str) raises InvalidRequirement: the text names no package.
get_lazy_requirement_fails(f) == f.kind = "str" /\ f.package = Unset

get_lazy_requirement(f) ==
    LazyRequirement(f.package, f.url, f.extras, f.specifiers, f.marker)

\* str(Marker("(l) and (r)")): a group of one comparison loses its
\* parentheses, a longer one keeps them.
MarkerGroup(m) == IF Len(m) = 1 THEN m ELSE <<"(">> \o m \o <<")">>

MarkerAnd(l, r) == MarkerGroup(l) \o <<"and">> \o MarkerGroup(r)

\* Mutant: the marker of the right side wins.
ComposeMarker_rhs(l, r) == IF r = NoMarker THEN l ELSE r

\* Lines 584-592 of compose.
ComposeMarker(l, r) ==
    IF l = NoMarker THEN r
    ELSE IF r = NoMarker THEN l
    ELSE IF l = r THEN l
    ELSE MarkerAnd(l, r)

\* Mutant: a conflict is settled in favour of the left side.
ComposeConflict_never(l, r) == FALSE

\* Lines 571-578 of compose: one of the two assertions fails.
ComposeConflict(l, r) ==
    \/ ~(l.package = Unset \/ r.package = Unset \/ l.package = r.package)
    \/ ~(l.url = Unset \/ r.url = Unset \/ l.url = r.url)

\* Mutant: the atoms of the left side only.
ComposeSpecifiers_lhs(l, r) == l.specifiers

\* Lines 601-603 of compose: frozenset(chain(lhss.specifiers, rhss.specifiers)).
ComposeSpecifiers(l, r) == l.specifiers \cup r.specifiers

\* `lhr.package or rhr.package`, of values that are not empty strings.
FirstSet(l, r) == IF l # Unset THEN l ELSE r

compose(lhs, rhs) ==
    IF lhs.kind \in RequirementKinds \/ rhs.kind \in RequirementKinds
    THEN
        LET lhr == get_lazy_requirement(lhs)
            rhr == get_lazy_requirement(rhs)
            package == FirstSet(lhr.package, rhr.package)
            url == FirstSet(lhr.url, rhr.url)
            extras == lhr.extras \cup rhr.extras
            specifier == ComposeSpecifiers(lhr, rhr)
            marker == ComposeMarker(lhr.marker, rhr.marker)
        IN  IF \/ get_lazy_requirement_fails(lhs)
               \/ get_lazy_requirement_fails(rhs)
               \/ ComposeConflict(lhr, rhr)
               \/ post_init_fails(url, specifier)
            THEN Raised(EMPTY_REQUIREMENT)
            ELSE Ok(LazyRequirement(package, url, extras, specifier, marker))
    ELSE IF get_lazy_specifier_set_fails(lhs) \/ get_lazy_specifier_set_fails(rhs)
    THEN Raised(EMPTY_REQUIREMENT)
    ELSE
        Ok(LazySpecifierSet(ComposeSpecifiers(get_lazy_specifier_set(lhs),
                                              get_lazy_specifier_set(rhs))))

(***************************************************************************)
(* Compose: the arguments and the operation.                               *)
(***************************************************************************)
Packages == {"foo", "bar"}

Urls == {"http://path/v1.3.0", "http://path/v2.0.0"}

Extras == {"extra1", "extra2"}

\* ==2.0.0 and >1.5.0
ComposeSpecifierAtoms ==
    {Specifier("==", Final(<<2, 0, 0>>)), Specifier(">", Final(<<1, 5, 0>>))}

\* python_version=='3.0' and python_version>'2.1'
Markers == {<<"python_version == \"3.0\"">>, <<"python_version > \"2.1\"">>}

\* LazyRequirements that pass __post_init__, with at most one extra.
LazyRequirements ==
    {f \in {LazyRequirement(p, u, e, s, m) :
                p \in Packages \cup {Unset}, u \in Urls \cup {Unset},
                e \in {{}} \cup {{x} : x \in Extras},
                s \in SUBSET ComposeSpecifierAtoms, m \in Markers \cup {NoMarker}} :
        ~post_init_fails(f.url, f.specifiers)}

\* Parsed Requirements: a LazyRequirement's fields with the package set.
Requirements ==
    {[f EXCEPT !.kind = "Requirement"] : f \in {g \in LazyRequirements : g.package # Unset}}

\* Specifier, LazySpecifier, SpecifierSet and LazySpecifierSet operands.
SpecifierFragments ==
    {[LazySpecifierSet({a}) EXCEPT !.kind = k] :
        a \in ComposeSpecifierAtoms, k \in {"Specifier", "LazySpecifier"}}
    \cup {[LazySpecifierSet(s) EXCEPT !.kind = k] :
        s \in SUBSET ComposeSpecifierAtoms, k \in {"SpecifierSet", "LazySpecifierSet"}}

\* str operands: the text of a requirement or of a specifier set.
Strings ==
    {[f EXCEPT !.kind = "str"] :
        f \in Requirements \cup {LazySpecifierSet(s) : s \in SUBSET ComposeSpecifierAtoms}}

Fragments == LazyRequirements \cup Requirements \cup SpecifierFragments \cup Strings

InitCompose ==
    /\ pc = "start"
    /\ args \in [lhs : Fragments, rhs : Fragments]
    /\ result = Ok(EMPTY_REQUIREMENT)

Compose ==
    /\ pc = "start"
    /\ pc' = "compose"
    /\ result' = compose(args.lhs, args.rhs)
    /\ UNCHANGED args

NextCompose == Compose

SpecCompose == InitCompose /\ [][NextCompose]_vars

(***************************************************************************)
(* Claims about compose.                                                   *)
(***************************************************************************)
\* An operand is a string that the branch taken cannot parse.
ComposeParseFails ==
    IF args.lhs.kind \in RequirementKinds \/ args.rhs.kind \in RequirementKinds
    THEN get_lazy_requirement_fails(args.lhs) \/ get_lazy_requirement_fails(args.rhs)
    ELSE get_lazy_specifier_set_fails(args.lhs) \/ get_lazy_specifier_set_fails(args.rhs)

BothSetAndDiffer(l, r) == l # Unset /\ r # Unset /\ l # r

\* The result would have a URL and specifier atoms.
UrlWithSpecifiers ==
    /\ args.lhs.url # Unset \/ args.rhs.url # Unset
    /\ args.lhs.specifiers \cup args.rhs.specifiers # {}

\* The field of the result is the value set on either side, if any.
CarriesTheSetValue(l, r, merged) ==
    /\ l # Unset => merged = l
    /\ r # Unset => merged = r
    /\ (l = Unset /\ r = Unset) => merged = Unset

\* C12: compose fails whenever both sides set a package name and the names
\* differ, or both set a URL and the URLs differ; for these two fields it
\* succeeds otherwise, and the result carries the one set value.
C12_ComposePackageUrlConflict ==
    pc = "compose" =>
        IF \/ BothSetAndDiffer(args.lhs.package, args.rhs.package)
           \/ BothSetAndDiffer(args.lhs.url, args.rhs.url)
        THEN result.err
        ELSE /\ ~(ComposeParseFails \/ UrlWithSpecifiers) => ~result.err
             /\ ~result.err =>
                   /\ CarriesTheSetValue(args.lhs.package, args.rhs.package,
                                         result.value.package)
                   /\ CarriesTheSetValue(args.lhs.url, args.rhs.url, result.value.url)

\* C12 witness: "foo" composed with "bar" fails.
C12_Witness ==
    /\ pc = "compose"
    /\ args.lhs = LazyRequirement("foo", Unset, {}, {}, NoMarker)
    /\ args.rhs = LazyRequirement("bar", Unset, {}, {}, NoMarker)
    /\ result.err

\* The markers of both sides, as comparable values: the marker of the
\* result when both are set and differ.
ConjunctionOfMarkers == MarkerAnd(args.lhs.marker, args.rhs.marker)

\* C13: a successful compose returns a lazy requirement when a side is
\* requirement-like and a lazy specifier set otherwise; its specifier atoms
\* are the union of both sides' atoms; a requirement's extras are the union
\* of both sides' extras and its marker is the conjunction of both markers
\* when both are set and unequal, otherwise the one that is set, or none.
C13_ComposeMerge ==
    (pc = "compose" /\ ~result.err) =>
        /\ result.value.kind =
              (IF args.lhs.kind \in RequirementKinds \/ args.rhs.kind \in RequirementKinds
               THEN "LazyRequirement" ELSE "LazySpecifierSet")
        /\ result.value.specifiers = args.lhs.specifiers \cup args.rhs.specifiers
        /\ result.value.kind = "LazyRequirement" =>
              /\ result.value.extras = args.lhs.extras \cup args.rhs.extras
              /\ result.value.marker =
                    (IF args.lhs.marker # NoMarker /\ args.rhs.marker # NoMarker
                        /\ args.lhs.marker # args.rhs.marker
                     THEN ConjunctionOfMarkers
                     ELSE IF args.lhs.marker # NoMarker THEN args.lhs.marker
                     ELSE args.rhs.marker)

\* C13 witness: ==2.0.0 composed with >1.5.0 is the set {>1.5.0, ==2.0.0}.
C13_Witness ==
    /\ pc = "compose"
    /\ args.lhs = [LazySpecifierSet({Specifier("==", Final(<<2, 0, 0>>))})
                      EXCEPT !.kind = "LazySpecifier"]
    /\ args.rhs = [LazySpecifierSet({Specifier(">", Final(<<1, 5, 0>>))})
                      EXCEPT !.kind = "LazySpecifier"]
    /\ result = Ok(LazySpecifierSet(ComposeSpecifierAtoms))

\* A fragment holds a URL and at least one specifier atom.
HasUrlAndSpecifiers(f) == f.url # Unset /\ f.specifiers # {}

\* C14: no fragment has both a URL and a non-empty specifier set: a compose
\* that would combine a URL with specifier atoms, in either operand order,
\* fails instead of returning a fragment.
C14_NoUrlWithSpecifiers ==
    /\ ~HasUrlAndSpecifiers(args.lhs)
    /\ ~HasUrlAndSpecifiers(args.rhs)
    /\ pc = "compose" =>
          /\ UrlWithSpecifiers => result.err
          /\ ~result.err => ~HasUrlAndSpecifiers(result.value)

\* C14 witness: a specifier on the left of a fragment with a URL.
C14_Witness ==
    /\ pc = "compose"
    /\ args.lhs.kind = "LazySpecifier"
    /\ args.rhs = LazyRequirement(Unset, "http://path/v2.0.0", {}, {}, NoMarker)
    /\ result.err

(***************************************************************************)
(* compreq.lazy: lazy nodes and their resolve.                             *)
(*                                                                         *)
(* A context is its current package (Unset for a Context that is not       *)
(* scoped to a package) and the release set it returns for each package.   *)
(* A lazy node is a record whose `node` is its class.                      *)
(***************************************************************************)
for_package(context, package) == [context EXCEPT !.package = package]

EagerLazyRelease(release) == [node |-> "EagerLazyRelease", release |-> release]

EagerLazyReleaseSet(releases) == [node |-> "EagerLazyReleaseSet", releases |-> releases]

AllLazyReleaseSet(package) == [node |-> "AllLazyReleaseSet", package |-> package]

ProdLazyReleaseSet(source) == [node |-> "ProdLazyReleaseSet", source |-> source]

PreLazyReleaseSet(source) == [node |-> "PreLazyReleaseSet", source |-> source]

MinLazyRelease(release_set) == [node |-> "MinLazyRelease", release_set |-> release_set]

MaxLazyRelease(release_set) == [node |-> "MaxLazyRelease", release_set |-> release_set]

EagerLazyVersion(version) == [node |-> "EagerLazyVersion", version |-> version]

ReleaseLazyVersion(release) == [node |-> "ReleaseLazyVersion", release |-> release]

LazySpecifier(op, version) == [op |-> op, version |-> version]

\* get_lazy_release_set of a ReleaseSet: its releases, each wrapped.
get_lazy_release_set(release_set) ==
    EagerLazyReleaseSet({EagerLazyRelease(r) : r \in release_set.releases})

\* Mutant: the assertion of ReleaseSet.__post_init__ is dropped.
ReleaseSet_post_init_never_fails(package, releases) == FALSE

\* ReleaseSet.__post_init__: the assertion fails.
ReleaseSet_post_init_fails(package, releases) ==
    \E r \in releases : r.package # package

\* EagerLazyReleaseSet.resolve: ReleaseSet(context.package, ...).
EagerLazyReleaseSet_resolve(n, context) ==
    LET releases == {r.release : r \in n.releases}
    IN  IF ReleaseSet_post_init_fails(context.package, releases)
        THEN Raised(EmptyReleaseSet)
        ELSE Ok(ReleaseSet(context.package, releases))

\* Mutant: the context's package, whatever the node names.
AllLazyReleaseSet_package_of_context(n, context) == context.package

\* AllLazyReleaseSet.resolve: `self.package or context.package`.
AllLazyReleaseSet_package(n, context) ==
    IF n.package # Unset THEN n.package ELSE context.package

\* Mutant: the pre view drops the pre-releases too.
PreLazyReleaseSet_resolve_without_prereleases(release_set) ==
    Ok(ReleaseSet(release_set.package,
                  {r \in release_set.releases : ~is_prerelease(r.version)}))

\* ProdLazyReleaseSet.resolve, given the resolved source.
ProdLazyReleaseSet_resolve(release_set) ==
    Ok(ReleaseSet(release_set.package,
                  {r \in release_set.releases :
                      ~(is_prerelease(r.version) \/ is_devrelease(r.version))}))

\* PreLazyReleaseSet.resolve, given the resolved source.
PreLazyReleaseSet_resolve(release_set) ==
    Ok(ReleaseSet(release_set.package,
                  {r \in release_set.releases : ~is_devrelease(r.version)}))

\* SpecifierLazyReleaseSet.resolve, given the resolved source and specifiers.
SpecifierLazyReleaseSet_resolve(release_set, specifier_set) ==
    Ok(ReleaseSet(release_set.package,
                  {r \in release_set.releases :
                      SpecifierSetContains(specifier_set, r.version)}))

RECURSIVE LazyReleaseSet_resolve(_, _)
LazyReleaseSet_resolve(n, context) ==
    CASE n.node = "EagerLazyReleaseSet" -> EagerLazyReleaseSet_resolve(n, context)
      [] n.node = "AllLazyReleaseSet" ->
            Ok(context.releases[AllLazyReleaseSet_package(n, context)])
      [] n.node = "ProdLazyReleaseSet" ->
            LET release_set == LazyReleaseSet_resolve(n.source, context)
            IN  IF release_set.err THEN release_set
                ELSE ProdLazyReleaseSet_resolve(release_set.value)
      [] n.node = "PreLazyReleaseSet" ->
            LET release_set == LazyReleaseSet_resolve(n.source, context)
            IN  IF release_set.err THEN release_set
                ELSE PreLazyReleaseSet_resolve(release_set.value)

NoRelease == Release(Unset, NoVersion, 0)

\* LazyRelease.resolve; min and max of an empty set raise ValueError.
LazyRelease_resolve(n, context) ==
    IF n.node = "EagerLazyRelease" THEN Ok(n.release)
    ELSE
        LET release_set == LazyReleaseSet_resolve(n.release_set, context)
        IN  IF release_set.err \/ release_set.value.releases = {} THEN Raised(NoRelease)
            ELSE IF n.node = "MinLazyRelease"
            THEN Ok(MinRelease(release_set.value.releases))
            ELSE Ok(MaxRelease(release_set.value.releases))

LazyVersion_resolve(n, context) ==
    IF n.node = "EagerLazyVersion" THEN Ok(n.version)
    ELSE
        LET release == LazyRelease_resolve(n.release, context)
        IN  IF release.err THEN Raised(NoVersion) ELSE Ok(release.value.version)

\* LazySpecifierSet.resolve of the frozenset of LazySpecifiers.
LazySpecifierSet_resolve(specifiers, context) ==
    IF \E a \in specifiers : LazyVersion_resolve(a.version, context).err
    THEN Raised({})
    ELSE Ok({Specifier(a.op, LazyVersion_resolve(a.version, context).value) :
                a \in specifiers})

\* LazyRequirement.resolve: the Requirement parsed from the joined tokens.
LazyRequirement_resolve(n, context) ==
    IF n.package = Unset THEN Raised(EMPTY_REQUIREMENT)
    ELSE
        LET package_context == for_package(context, n.package)
            specifier == LazySpecifierSet_resolve(n.specifiers, package_context)
        IN  IF specifier.err THEN Raised(EMPTY_REQUIREMENT)
            ELSE Ok(Fragment("Requirement", n.package, n.url, n.extras,
                             specifier.value, n.marker))

(***************************************************************************)
(* Lazy: the nodes, the contexts and the operations.                       *)
(***************************************************************************)
\* What the context knows: releases of foo on the 1.x line and of bar on
\* the 2.x line, so that a version tells the package it was fetched for.
KnownVersions ==
    [foo |-> {Final(<<1, 0, 0>>), Dev(<<1, 1, 0>>, 1), Final(<<1, 1, 0>>)},
     bar |-> {Final(<<2, 0, 0>>), Pre(<<2, 1, 0>>, 1)}]

ReleasesOf(package, versions) == {Release(package, v, 0) : v \in versions}

KnownReleaseSets(package) ==
    {ReleaseSet(package, ReleasesOf(package, vs)) : vs \in SUBSET KnownVersions[package]}

Contexts ==
    [package : Packages \cup {Unset},
     releases : {f \in [Packages -> UNION {KnownReleaseSets(p) : p \in Packages}] :
                    \A p \in Packages : f[p].package = p}]

\* Concrete release sets to wrap: at most two releases of one package.
ConcreteReleaseSets ==
    {R \in UNION {KnownReleaseSets(p) : p \in Packages} : Cardinality(R.releases) <= 2}

SourceLazyReleaseSets == {AllLazyReleaseSet(p) : p \in Packages \cup {Unset}}

LazyReleaseSets ==
    SourceLazyReleaseSets
        \cup {ProdLazyReleaseSet(n) : n \in SourceLazyReleaseSets}
        \cup {PreLazyReleaseSet(n) : n \in SourceLazyReleaseSets}
        \cup {get_lazy_release_set(R) : R \in ConcreteReleaseSets}

LazyReleases ==
    {EagerLazyRelease(r) : r \in UNION {ReleasesOf(p, KnownVersions[p]) : p \in Packages}}
        \cup {MinLazyRelease(n) : n \in LazyReleaseSets}
        \cup {MaxLazyRelease(n) : n \in LazyReleaseSets}

LazyVersions ==
    {EagerLazyVersion(v) : v \in UNION {KnownVersions[p] : p \in Packages}}
        \cup {ReleaseLazyVersion(n) : n \in LazyReleases}

\* Requirements with one or no lazy specifier.
ResolvableRequirements ==
    {LazyRequirement(p, Unset, e, a, NoMarker) :
        p \in Packages \cup {Unset}, e \in {{}, {"extra1"}},
        a \in {{}} \cup {{LazySpecifier(">=", v)} : v \in LazyVersions}}

LazyArgs ==
    [node : LazyVersions \cup LazyReleases \cup LazyReleaseSets \cup ResolvableRequirements,
     context : Contexts]

InitLazy ==
    /\ pc = "start"
    /\ args \in LazyArgs
    /\ result = Ok(NoVersion)

ResolveVersion ==
    /\ pc = "start"
    /\ args.node \in LazyVersions
    /\ args.context.package # Unset
    /\ pc' = "resolve_version"
    /\ result' = LazyVersion_resolve(args.node, args.context)
    /\ UNCHANGED args

ResolveRelease ==
    /\ pc = "start"
    /\ args.node \in LazyReleases
    /\ args.context.package # Unset
    /\ pc' = "resolve_release"
    /\ result' = LazyRelease_resolve(args.node, args.context)
    /\ UNCHANGED args

ResolveReleaseSet ==
    /\ pc = "start"
    /\ args.node \in LazyReleaseSets
    /\ args.context.package # Unset
    /\ pc' = "resolve_release_set"
    /\ result' = LazyReleaseSet_resolve(args.node, args.context)
    /\ UNCHANGED args

ResolveRequirement ==
    /\ pc = "start"
    /\ args.node \in ResolvableRequirements
    /\ pc' = "resolve_requirement"
    /\ result' = LazyRequirement_resolve(args.node, args.context)
    /\ UNCHANGED args

NextLazy == ResolveVersion \/ ResolveRelease \/ ResolveReleaseSet \/ ResolveRequirement

SpecLazy == InitLazy /\ [][NextLazy]_vars

(***************************************************************************)
(* Claims about resolve.                                                   *)
(***************************************************************************)
\* The lazy release set fetches from the context, and the package it names.
FetchesReleases(n) ==
    \/ n.node = "AllLazyReleaseSet"
    \/ n.node \in {"ProdLazyReleaseSet", "PreLazyReleaseSet"}

NamedPackage(n) == IF n.node = "AllLazyReleaseSet" THEN n.package ELSE n.source.package

\* C15: LazyRequirement.resolve fails when the package is unset; when it is
\* P, a lazy release set inside the specifier that names no package fetches
\* the releases of P, and one that names package Q those of Q.
C15_RequirementResolvesInPackageContext ==
    pc = "resolve_requirement" =>
        /\ args.node.package = Unset => result.err
        /\ (args.node.package # Unset /\ ~result.err) =>
              /\ result.value.package = args.node.package
              /\ \A a \in args.node.specifiers :
                    (/\ a.version.node = "ReleaseLazyVersion"
                     /\ a.version.release.node \in {"MinLazyRelease", "MaxLazyRelease"}
                     /\ FetchesReleases(a.version.release.release_set)) =>
                        LET named == NamedPackage(a.version.release.release_set)
                            fetched == IF named = Unset THEN args.node.package ELSE named
                        IN  \E r \in args.context.releases[fetched].releases :
                                result.value.specifiers = {Specifier(a.op, r.version)}

\* C15 witness: a requirement on foo whose specifier takes the maximum of
\* the releases of bar, resolved in a context scoped to neither.
C15_Witness ==
    /\ pc = "resolve_requirement"
    /\ args.context.package = Unset
    /\ args.node.package = "foo"
    /\ \E a \in args.node.specifiers :
          a.version = ReleaseLazyVersion(MaxLazyRelease(AllLazyReleaseSet("bar")))
    /\ ~result.err
    /\ result.value.specifiers = {Specifier(">=", Pre(<<2, 1, 0>>, 1))}

\* C16: an eager lazy node resolves to the wrapped literal in every
\* context: an eager version or release to the wrapped value, and the eager
\* release set obtained from a concrete ReleaseSet R to a set equal to R,
\* whatever the current package of the context is.
C16_EagerResolvesToLiteral ==
    /\ (pc = "resolve_version" /\ args.node.node = "EagerLazyVersion") =>
          result = Ok(args.node.version)
    /\ (pc = "resolve_release" /\ args.node.node = "EagerLazyRelease") =>
          result = Ok(args.node.release)
    /\ pc = "resolve_release_set" =>
          \A R \in ConcreteReleaseSets :
              args.node = get_lazy_release_set(R) => result = Ok(R)

(***************************************************************************)
(* compreq.operators.ConsistentLowerBoundsLazyRequirementSet.resolve       *)
(*                                                                         *)
(* A requirement set maps a package name to its Requirement.  The venv is  *)
(* the environment: what it reports as installed is an input of the step.  *)
(***************************************************************************)
Requirement(name, specifiers) ==
    Fragment("Requirement", name, Unset, {}, specifiers, NoMarker)

\* make_requirement(requirement, specifier=...): the specifier replaced.
make_requirement(requirement, specifiers) ==
    [requirement EXCEPT !.specifiers = specifiers]

\* The packages whose requirement gets an upper-bound twin (lines 576-589).
HasInclusiveLower(b) == b.lower # None /\ b.lower_inclusive

\* Line 585: SpecifierSet(f"<={b.lower}") & b.exclusions_specifier_set()
UpperBoundRequest(b) == {Specifier("<=", b.lower)} \cup exclusions_specifier_set(b)

\* Mutant: the lower bound is left as it was.
RepairedSpecifiers_keep_lower(b, version) == minimal_specifier_set(b)

\* Line 613: replace(b, lower=version).minimal_specifier_set()
RepairedSpecifiers(b, version) ==
    minimal_specifier_set([b EXCEPT !.lower = version])

\* Mutant: the installed version is not compared with the lower bound.
RepairAssertFails_never(b, version) == FALSE

\* Line 612: assert b.lower >= version fails.
RepairAssertFails(b, version) == ~VersionLe(version, b.lower)

\* The names for which the venv is asked what it installed.
UpperBoundNames(requirement_set, bounds) ==
    {n \in DOMAIN requirement_set \ {"python"} :
        /\ requirement_set[n].specifiers # {}
        /\ ~bounds[n].err
        /\ HasInclusiveLower(bounds[n].value)}

\* What a resolve leaves behind: the requirement set returned, what the
\* venv was asked to install and what it reported, the python version of
\* the venv, and the bounds found for the requirements.
Repair(requirements, install, installed, python_version, bounds) ==
    [requirements |-> requirements, install |-> install, installed |-> installed,
     python_version |-> python_version, bounds |-> bounds]

NoRepair == Repair(<<>>, <<>>, <<>>, None, <<>>)

\* resolve, given the bounds get_bounds returned for each requirement and
\* the versions the venv reports.
ConsistentLowerBounds_resolve(requirement_set, bounds, installed, default_python) ==
    LET names == DOMAIN requirement_set
        bounded == {n \in names \ {"python"} : requirement_set[n].specifiers # {}}
        upper_bounds == UpperBoundNames(requirement_set, bounds)
        python == "python" \in names
        python_version ==
            IF python THEN bounds["python"].value.lower ELSE default_python
        install ==
            [n \in names \ {"python"} |->
                IF n \in upper_bounds
                THEN make_requirement(requirement_set[n], UpperBoundRequest(bounds[n].value))
                ELSE requirement_set[n]]
    IN  IF \E n \in bounded : bounds[n].err
        THEN Raised(Repair(<<>>, <<>>, <<>>, None, bounds))
        ELSE IF python /\ (bounds["python"].err \/ ~HasInclusiveLower(bounds["python"].value))
        THEN Raised(Repair(<<>>, <<>>, <<>>, None, bounds))
        ELSE IF \E n \in upper_bounds : RepairAssertFails(bounds[n].value, installed[n])
        THEN Raised(Repair(<<>>, install, installed, python_version, bounds))
        ELSE Ok(Repair([n \in names |->
                           IF n \in upper_bounds
                           THEN make_requirement(requirement_set[n],
                                    RepairedSpecifiers(bounds[n].value, installed[n]))
                           ELSE requirement_set[n]],
                       install, installed, python_version, bounds))

(***************************************************************************)
(* Repair: the arguments and the operation.                                *)
(***************************************************************************)
\* What the venv may report for a package.
InstallableVersions ==
    {Final(<<0, 9>>), Final(<<1, 0>>), Final(<<1, 1>>), Final(<<1, 1, 1>>), Final(<<2, 0>>)}

DefaultPython == Final(<<3, 11>>)

\* The specifier sets of foo: at most one atom for the lower bound, one
\* for the upper bound, and exclusions below and above 1.1.
RepairSpecifierSets ==
    {lower \cup upper \cup exclusions :
        lower \in {{}} \cup {{Specifier(op, Final(<<1, 1>>))} : op \in {">=", ">", "==", "~="}}
                       \cup {{Specifier(">=", Final(<<1, 0>>))}},
        upper \in {{}} \cup {{Specifier(op, Final(<<2, 0>>))} : op \in {"<", "<="}},
        exclusions \in SUBSET {Specifier("!=", Final(<<1, 0>>)),
                               Specifier("!=", Final(<<1, 1, 1>>))}}

\* The requirements next to foo: none; python>=1.0 and bar<2.0; python>1.0.
RepairCompanions ==
    {<<>>,
     [python |-> Requirement("python", {Specifier(">=", Final(<<1, 0>>))}),
      bar |-> Requirement("bar", {Specifier("<", Final(<<2, 0>>))})],
     [python |-> Requirement("python", {Specifier(">", Final(<<1, 0>>))})]}

RepairRequirementSets ==
    {[n \in {"foo"} \cup DOMAIN companions |->
        IF n = "foo" THEN Requirement("foo", s) ELSE companions[n]] :
        s \in RepairSpecifierSets, companions \in RepairCompanions}

InitRepair ==
    /\ pc = "start"
    /\ args \in [requirement_set : RepairRequirementSets, default_python : {DefaultPython}]
    /\ result = Ok(NoRepair)

ConsistentLowerBounds ==
    /\ pc = "start"
    /\ pc' = "consistent_lower_bounds"
    /\ \E order \in Orders(args.requirement_set["foo"].specifiers) :
          LET \* The companions of foo have one atom, hence one order.
              bounds == [n \in DOMAIN args.requirement_set |->
                            IF n = "foo"
                            THEN get_bounds(args.requirement_set[n].specifiers, order)
                            ELSE get_bounds(args.requirement_set[n].specifiers,
                                            <<CHOOSE a \in args.requirement_set[n].specifiers : TRUE>>)]
          IN  \E installed \in [UpperBoundNames(args.requirement_set, bounds) ->
                                   InstallableVersions] :
                 result' = ConsistentLowerBounds_resolve(args.requirement_set, bounds,
                                                         installed, args.default_python)
    /\ UNCHANGED args

NextRepair == ConsistentLowerBounds

SpecRepair == InitRepair /\ [][NextRepair]_vars

(***************************************************************************)
(* Claims about consistent lower bounds.                                   *)
(***************************************************************************)
RepairDone == pc = "consistent_lower_bounds"

\* The non-language requirements with an inclusive lower bound.
LowerBounded ==
    {n \in DOMAIN args.requirement_set \ {"python"} :
        /\ args.requirement_set[n].specifiers # {}
        /\ ~result.value.bounds[n].err
        /\ result.value.bounds[n].value.lower # None
        /\ result.value.bounds[n].value.lower_inclusive}

StatedLower(n) == result.value.bounds[n].value.lower

\* The venv was created for a python version, and asked to install the
\* requirements.
RepairInstalled ==
    /\ RepairDone
    /\ result.value.python_version # None
    /\ DOMAIN result.value.installed = LowerBounded

\* C17 as stated: if the version installed for P is higher than the
\* inclusive lower bound V, the resolve completes and the requirement for P
\* has the installed version as its lower bound.
C17_HigherInstalledBecomesLower ==
    RepairInstalled =>
        \A n \in LowerBounded :
            VersionLt(StatedLower(n), result.value.installed[n]) =>
                /\ ~result.err
                /\ Specifier(">=", result.value.installed[n])
                      \in result.value.requirements[n].specifiers

\* C17 amended: the resolve completes exactly when no installed version is
\* higher than its stated lower bound V, and the requirement for P then
\* has the installed version, which is V or lower, as its inclusive lower
\* bound; an installed version higher than V fails the resolve.
C17_LowerInstalledBecomesLower ==
    RepairInstalled =>
        /\ result.err <=>
              \E n \in LowerBounded : VersionLt(StatedLower(n), result.value.installed[n])
        /\ ~result.err =>
              \A n \in LowerBounded :
                  /\ VersionLe(result.value.installed[n], StatedLower(n))
                  /\ Specifier(">=", result.value.installed[n])
                        \in result.value.requirements[n].specifiers

\* C17 witness: foo>=1.1 with 1.0 installed is rewritten to foo>=1.0.
C17_Witness ==
    /\ RepairInstalled
    /\ ~result.err
    /\ "foo" \in LowerBounded
    /\ StatedLower("foo") = Final(<<1, 1>>)
    /\ result.value.installed["foo"] = Final(<<1, 0>>)
    /\ Specifier(">=", Final(<<1, 0>>)) \in result.value.requirements["foo"].specifiers

RejectedByUpperOrExclusion(specifiers, version) ==
    \E a \in specifiers :
        /\ a.operator \in {"<", "<=", "!="}
        /\ ~SpecifierContains(a, version)

\* C19: a requirement rewritten by the repair has the upper bound of the
\* original specifier set, value and inclusivity, and rejects every version
\* that the original rejected because of its upper bound or of one of its
\* != atoms, also between the new and the old lower bound.
C19_RepairPreservesUpperAndExclusions ==
    (RepairDone /\ ~result.err) =>
        \A n \in LowerBounded :
            /\ upper_specifier_set(result.value.bounds[n].value)
                  \subseteq result.value.requirements[n].specifiers
            /\ \A a \in result.value.requirements[n].specifiers :
                  a.operator \in {"<", "<="} =>
                      a \in upper_specifier_set(result.value.bounds[n].value)
            /\ \A p \in Probes :
                  RejectedByUpperOrExclusion(args.requirement_set[n].specifiers, p) =>
                      ~SpecifierSetContains(result.value.requirements[n].specifiers, p)

(***************************************************************************)
(* Claims about the compatible-release operator.                           *)
(***************************************************************************)
\* C20: for the specifier set of one atom ~=V, get_bounds returns lower = V
\* inclusive and upper = the ceiling of V at its last release segment,
\* without trailing zeros, exclusive, and the interval [lower, upper) holds
\* exactly the versions that ~=V accepts.
C20_CompatibleReleaseBounds ==
    \A V \in SpecifierVersions :
        (pc = "get_bounds" /\ args.specifier_set = {Specifier("~=", V)}) =>
            /\ ~result.err
            /\ result.value.lower = V
            /\ result.value.lower_inclusive
            /\ result.value.upper = ceil(IntLevel(Len(V.release) - 1), V, FALSE).value
            /\ ~result.value.upper_inclusive
            /\ \A p \in Probes :
                  (VersionLe(result.value.lower, p) /\ VersionLt(p, result.value.upper))
                      <=> SpecifierSetContains(args.specifier_set, p)

(***************************************************************************)
(* compreq.time and the construction of Release and ReleaseSet.  A time    *)
(* stamp is a value of some type with a clock reading and the name of its  *)
(* time zone, Unset for a naive one.  Release is a plain frozen dataclass: *)
(* its generated constructor stores the four fields.                       *)
(***************************************************************************)
Datetime(type, time, tzname) == [type |-> type, time |-> time, tzname |-> tzname]

is_utc_datetime(time) ==
    IF time.type # "datetime" THEN FALSE
    ELSE IF time.tzname # Unset THEN time.tzname = "UTC"
    ELSE FALSE

Release_init(package, version, released_time, successor) ==
    Ok([package |-> package, version |-> version,
        released_time |-> released_time, successor |-> successor])

ReleaseSet_init(package, releases) ==
    IF ReleaseSet_post_init_fails(package, releases)
    THEN Raised("AssertionError")
    ELSE Ok(ReleaseSet(package, releases))

Datetimes ==
    {Datetime(ty, t, tz) : ty \in {"datetime", "Timestamp"}, t \in 0..MaxTime,
                           tz \in {Unset, "UTC", "CET"}}

ConstructionVersions ==
    {Final(<<1, 0, 0>>), Version(0, <<1, 1, 0>>, 1, Absent, Absent),
     Version(0, <<1, 1, 0>>, Absent, Absent, 1)}

ConstructionArgs ==
    [package : Packages, version : ConstructionVersions,
     released_time : Datetimes, set_package : Packages]

InitConstruction ==
    /\ pc = "start"
    /\ args \in ConstructionArgs
    /\ result = Ok(NoVersion)

\* Release(package, version, released_time, None)
NewRelease ==
    /\ pc = "start"
    /\ pc' = "Release"
    /\ result' = Release_init(args.package, args.version, args.released_time, None)
    /\ UNCHANGED args

\* ReleaseSet(set_package, {release})
NewReleaseSet ==
    /\ pc = "Release"
    /\ ~result.err
    /\ pc' = "ReleaseSet"
    /\ result' = ReleaseSet_init(args.set_package, {result.value})
    /\ UNCHANGED args

NextConstruction == NewRelease \/ NewReleaseSet

SpecConstruction == InitConstruction /\ [][NextConstruction]_vars

\* C21: constructing a Release whose released_time is not a timezone-aware
\* UTC timestamp (naive, or in another time zone) fails, so that every
\* Release that exists has a UTC released_time.
C21_ReleaseRequiresUtc ==
    pc = "Release" =>
        /\ ~is_utc_datetime(args.released_time) => result.err
        /\ ~result.err => is_utc_datetime(result.value.released_time)

(***************************************************************************)
(* Chains of release-set operators.  A source set is constructed and the   *)
(* operators are applied to the set resolved so far, in any order and any  *)
(* number of times, as the nested lazy nodes resolve from the inside out.  *)
(***************************************************************************)
ViewReleases ==
    {Release("foo", Final(<<1, 0, 0>>), 0),
     Release("foo", Dev(<<1, 1, 0>>, 1), 1),
     Release("foo", Pre(<<1, 1, 0>>, 1), 1),
     Release("foo", Final(<<1, 1, 0>>), 2),
     Release("foo", Final(<<2, 0, 0>>), 2),
     Release("bar", Final(<<1, 0, 0>>), 0)}

ViewSpecifierSets ==
    {{}, {Specifier(">=", Final(<<1, 1, 0>>))}, {Specifier("<", Final(<<2, 0, 0>>))},
     {Specifier("==", Final(<<1, 0, 0>>))},
     {Specifier(">=", Final(<<1, 0, 0>>)), Specifier("!=", Final(<<1, 1, 0>>))}}

ViewArgs ==
    [package : {"foo"}, releases : SUBSET ViewReleases, context_now : {MaxTime}]

InitViews ==
    /\ pc = "start"
    /\ args \in ViewArgs
    /\ result = Ok(EmptyReleaseSet)

\* ReleaseSet(package, releases)
ViewSource ==
    /\ pc = "start"
    /\ pc' = "source"
    /\ result' = ReleaseSet_init(args.package, args.releases)
    /\ UNCHANGED args

ViewProd ==
    /\ pc # "start" /\ ~result.err
    /\ pc' = "prod"
    /\ result' = ProdLazyReleaseSet_resolve(result.value)
    /\ UNCHANGED args

ViewPre ==
    /\ pc # "start" /\ ~result.err
    /\ pc' = "pre"
    /\ result' = PreLazyReleaseSet_resolve(result.value)
    /\ UNCHANGED args

ViewSpecifier ==
    /\ pc # "start" /\ ~result.err
    /\ pc' = "specifier"
    /\ \E specifier_set \in ViewSpecifierSets :
          result' = SpecifierLazyReleaseSet_resolve(result.value, specifier_set)
    /\ UNCHANGED args

ViewMinAge ==
    /\ pc # "start" /\ ~result.err
    /\ pc' = "min_age"
    /\ \E now \in {Absent} \cup (0..MaxTime), age \in 0..MaxAge, allow_empty \in BOOLEAN :
          result' = MinAgeLazyReleaseSet_resolve(now, age, allow_empty, result.value,
                                                 args.context_now)
    /\ UNCHANGED args

ViewMaxAge ==
    /\ pc # "start" /\ ~result.err
    /\ pc' = "max_age"
    /\ \E now \in {Absent} \cup (0..MaxTime), age \in 0..MaxAge, allow_empty \in BOOLEAN :
          result' = MaxAgeLazyReleaseSet_resolve(now, age, allow_empty, result.value,
                                                 args.context_now)
    /\ UNCHANGED args

ViewCount ==
    /\ pc # "start" /\ ~result.err
    /\ pc' = "count"
    /\ \E level \in CountLevels, n \in 0..MaxN :
          result' = CountLazyReleaseSet_resolve(level, n, result.value)
    /\ UNCHANGED args

NextViews ==
    \/ ViewSource
    \/ ViewProd
    \/ ViewPre
    \/ ViewSpecifier
    \/ ViewMinAge
    \/ ViewMaxAge
    \/ ViewCount

SpecViews == InitViews /\ [][NextViews]_vars

\* C22: constructing a ReleaseSet that holds a release of another package
\* fails, and every release set resolved from a chain of production, pre,
\* specifier, min_age, max_age and count operators over a source set has the
\* package of the source and holds only members of the source.
C22_ViewsStayInsideSource ==
    /\ pc = "source" =>
          (result.err <=> \E r \in args.releases : r.package # args.package)
    /\ (pc # "start" /\ ~result.err) =>
          /\ result.value.package = args.package
          /\ result.value.releases \subseteq args.releases
          /\ \A r \in result.value.releases : r.package = result.value.package

\* C22 witness: a chain ending in count kept some, not all, of a source.
C22_Witness ==
    /\ pc = "count"
    /\ ~result.err
    /\ result.value.releases # {}
    /\ result.value.releases # args.releases
    /\ Cardinality(args.releases) >= 3

\* C23: for a release set S, production(S) is a subset of pre(S), which is
\* a subset of S; production(S) holds exactly the releases of S with neither
\* a pre-release nor a dev-release qualifier, pre(S) exactly those without a
\* dev-release qualifier; applying a view twice equals applying it once.
C23_NestedViews ==
    (pc # "start" /\ ~result.err) =>
        LET S == result.value
            production == ProdLazyReleaseSet_resolve(S).value
            pre == PreLazyReleaseSet_resolve(S).value
        IN  /\ production.releases \subseteq pre.releases
            /\ pre.releases \subseteq S.releases
            /\ production.releases =
                  {r \in S.releases : r.version.pre = Absent /\ r.version.dev = Absent}
            /\ pre.releases = {r \in S.releases : r.version.dev = Absent}
            /\ ProdLazyReleaseSet_resolve(production) = Ok(production)
            /\ PreLazyReleaseSet_resolve(pre) = Ok(pre)
            /\ pc = "prod" => production = S
            /\ pc = "pre" => pre = S

\* C23 witness: the pre view of a source with a dev-release kept a
\* pre-release, which the production view of the same set drops.
C23_Witness ==
    /\ pc = "pre"
    /\ ~result.err
    /\ \E r \in args.releases : r.version.dev # Absent
    /\ \E r \in result.value.releases : r.version.pre # Absent
    /\ ProdLazyReleaseSet_resolve(result.value).value.releases # result.value.releases
    /\ ProdLazyReleaseSet_resolve(result.value).value.releases # {}

(***************************************************************************)
(* compreq.virtualenv: temp_venv.  The state is the temporary directory    *)
(* (does it exist), the python version of the virtualenv command that was  *)
(* run, and whether an exception is propagating.  The inputs are the       *)
(* python version (NoVersion: a string that does not parse), the return    *)
(* code of the virtualenv command, and how the body of the block ends.     *)
(***************************************************************************)
TempVenv(directory_exists, command) ==
    [directory_exists |-> directory_exists, command |-> command]

\* _run: the assertion on the return code fails.
run_fails(returncode) == returncode # 0

\* create_venv: Ok(the python version of the command) or the exception.
create_venv(python_version, returncode) ==
    IF python_version = NoVersion THEN Raised("InvalidVersion")
    ELSE LET floored == floor(MINOR, python_version, FALSE)
         IN  IF floored.err THEN Raised("IndexError")
             ELSE IF run_fails(returncode) THEN Raised("AssertionError")
             ELSE Ok(floored.value)

VenvPythonVersions ==
    {NoVersion, Final(<<3>>), Final(<<3, 9>>), Final(<<3, 10>>), Final(<<3, 10, 1>>),
     Final(<<3, 11, 0>>), Pre(<<3, 12, 0>>, 1), Final(<<3, 12, 0, 0>>)}

VenvArgs ==
    [python_version : VenvPythonVersions, clean_on_error : BOOLEAN,
     returncode : {0, 1}, body : {"return", "raise"}]

InitVenv ==
    /\ pc = "start"
    /\ args \in VenvArgs
    /\ result = Ok(TempVenv(FALSE, NoVersion))

\* Lines 89-90, up to the yield: mkdtemp, then create_venv outside any try.
EnterTempVenv ==
    /\ pc = "start"
    /\ LET venv == create_venv(args.python_version, args.returncode)
       IN  IF venv.err
           THEN /\ pc' = "left"
                /\ result' = Raised(TempVenv(TRUE, NoVersion))
           ELSE /\ pc' = "yield"
                /\ result' = Ok(TempVenv(TRUE, venv.value))
    /\ UNCHANGED args

\* The body of the with block completes.
BlockReturns ==
    /\ pc = "yield"
    /\ args.body = "return"
    /\ pc' = "resumed"
    /\ UNCHANGED <<args, result>>

\* The body of the with block raises: the exception is thrown at the yield.
BlockRaises ==
    /\ pc = "yield"
    /\ args.body = "raise"
    /\ pc' = "thrown"
    /\ result' = Raised(result.value)
    /\ UNCHANGED args

\* Lines 91-98 after the yield: remove_venv in the finally clause, or after
\* a yield that returned.
ExitTempVenv ==
    /\ pc \in {"resumed", "thrown"}
    /\ pc' = "left"
    /\ result' = IF args.clean_on_error \/ pc = "resumed"
                 THEN [result EXCEPT !.value.directory_exists = FALSE]
                 ELSE result
    /\ UNCHANGED args

NextVenv == EnterTempVenv \/ BlockReturns \/ BlockRaises \/ ExitTempVenv

SpecVenv == InitVenv /\ [][NextVenv]_vars

\* C24: with clean_on_error (the default) the temporary directory does not
\* exist once temp_venv is left, whether the block completed, raised, or the
\* environment could not be created.
C24_TempVenvRemovedOnAllPaths ==
    (pc = "left" /\ args.clean_on_error) => ~result.value.directory_exists

(***************************************************************************)
(* Claims about get_bounds.                                                *)
(***************************************************************************)
MinVersion(S) == CHOOSE v \in S : \A w \in S : ~VersionLt(w, v)

\* The ceiling that get_bounds takes for a ~= atom.
CompatibleCeiling(a) == ceil(IntLevel(0 - 1), a.version, FALSE).value

\* The versions that bound a specifier set from below and from above.
LowerCandidates(S) == {a.version : a \in {x \in S : x.operator \in {">", ">=", "==", "~="}}}

UpperCandidates(S) ==
    {a.version : a \in {x \in S : x.operator \in {"<", "<=", "=="}}}
        \cup {CompatibleCeiling(a) : a \in {x \in S : x.operator = "~="}}

StatedLowerBound(S) ==
    IF LowerCandidates(S) = {} THEN None ELSE MaxVersion(LowerCandidates(S))

StatedUpperBound(S) ==
    IF UpperCandidates(S) = {} THEN None ELSE MinVersion(UpperCandidates(S))

LowerExclusive(S) ==
    \E a \in S : a.operator \in {">", "!="} /\ VersionEq(a.version, StatedLowerBound(S))

UpperExclusive(S) ==
    \E a \in S :
        \/ a.operator \in {"<", "!="} /\ VersionEq(a.version, StatedUpperBound(S))
        \/ a.operator = "~=" /\ VersionEq(CompatibleCeiling(a), StatedUpperBound(S))

StatedEmpty(S) ==
    /\ StatedLowerBound(S) # None
    /\ StatedUpperBound(S) # None
    /\ \/ VersionLt(StatedUpperBound(S), StatedLowerBound(S))
       \/ /\ VersionEq(StatedLowerBound(S), StatedUpperBound(S))
          /\ LowerExclusive(S) \/ UpperExclusive(S)

\* C25: get_bounds gives the same outcome for every order in which the
\* atoms are folded; the lower bound is the greatest version of the >, >=,
\* == and ~= atoms, exclusive iff a > or != atom has that version; the upper
\* bound is the least version of the <, <=, == atoms and ~= ceilings,
\* exclusive iff a <, a ~= ceiling or a != atom has that version; get_bounds
\* fails exactly when both exist and lower > upper, or they are equal and
\* one of them is exclusive.
C25_BoundsOrderIndependent ==
    pc = "get_bounds" =>
        LET S == args.specifier_set
        IN  /\ \A specifiers \in Orders(S) : get_bounds(S, specifiers) = result
            /\ result.err <=> StatedEmpty(S)
            /\ ~result.err =>
                  /\ result.value.lower = StatedLowerBound(S)
                  /\ result.value.upper = StatedUpperBound(S)
                  /\ result.value.lower # None =>
                        (result.value.lower_inclusive <=> ~LowerExclusive(S))
                  /\ result.value.upper # None =>
                        (result.value.upper_inclusive <=> ~UpperExclusive(S))

\* C26: in the Bounds that get_bounds returns every exclusion lies strictly
\* above the lower bound and strictly below the upper bound, when present;
\* a bound whose version a != atom names is exclusive, and that version is
\* not among the exclusions.
C26_ExclusionsStrictlyInside ==
    (pc = "get_bounds" /\ ~result.err) =>
        LET b == result.value
            excluded == {a.version : a \in {x \in args.specifier_set : x.operator = "!="}}
        IN  /\ b.exclusions \subseteq {Canonical(v) : v \in excluded}
            /\ \A e \in b.exclusions :
                  /\ b.lower # None => VersionLt(b.lower, e)
                  /\ b.upper # None => VersionLt(e, b.upper)
            /\ \A v \in excluded :
                  /\ (b.lower # None /\ VersionEq(v, b.lower)) =>
                        ~b.lower_inclusive /\ Canonical(v) \notin b.exclusions
                  /\ (b.upper # None /\ VersionEq(v, b.upper)) =>
                        ~b.upper_inclusive /\ Canonical(v) \notin b.exclusions

\* C26 witness: the inclusive lower bound is excluded, and so reported as
\* exclusive without an exclusion.
C26_Witness ==
    /\ pc = "get_bounds"
    /\ ~result.err
    /\ \E a, b \in args.specifier_set :
          a.operator = ">=" /\ b.operator = "!=" /\ a.version = b.version
    /\ ~result.value.lower_inclusive
    /\ result.value.exclusions = {}

(***************************************************************************)
(* compreq.releases.infer_and_set_successor.  The releases carry their     *)
(* successor field; by_version is a dict keyed by the value of the         *)
(* version, modelled as a function on the versions without trailing zeros. *)
(***************************************************************************)
\* dataclasses.replace(r, successor=successor)
replace_successor(r, successor) == [r EXCEPT !.successor = successor]

\* Mutant: sorted(releases.releases), lowest first.
RECURSIVE SortedReleases_ascending(_)
SortedReleases_ascending(S) ==
    IF S = {} THEN <<>>
    ELSE LET m == MinRelease(S) IN <<m>> \o SortedReleases_ascending(S \ {m})

\* sorted(releases.releases, reverse=True)
RECURSIVE SortedReleases(_)
SortedReleases(S) ==
    IF S = {} THEN <<>>
    ELSE LET m == MaxRelease(S) IN <<m>> \o SortedReleases(S \ {m})

\* Line 49: {r.version: r for r in releases.releases}; of the releases with
\* one version the dict keeps the last one iterated, any of them.
ByVersion(releases) ==
    [v \in {Canonical(r.version) : r \in releases} |->
        CHOOSE r \in releases : Canonical(r.version) = v]

\* Lines 52-55: the body of the loop.
SetSuccessorStep(by_version, successors, r) ==
    LET s == successors[Canonical(r.version)]
        patched == IF s # None THEN replace_successor(r, by_version[s]) ELSE r
    IN  [by_version EXCEPT ![Canonical(r.version)] = patched]

RECURSIVE SetSuccessorLoop(_, _, _, _)
SetSuccessorLoop(sorted, k, successors, by_version) ==
    IF k > Len(sorted) THEN by_version
    ELSE SetSuccessorLoop(sorted, k + 1, successors,
                          SetSuccessorStep(by_version, successors, sorted[k]))

infer_and_set_successor(releases) ==
    LET by_version == ByVersion(releases.releases)
        successors == infer_successor(DOMAIN by_version)
        patched == SetSuccessorLoop(SortedReleases(releases.releases), 1,
                                    successors, by_version)
    IN  ReleaseSet_init(releases.package, {patched[v] : v \in DOMAIN patched})

\* The releases as pypireleases and pythonreleases construct them, with no
\* successor: 2.0.0, 2.1.0a1, 2.1.0a2.dev1, 2.1.0a2, 2.1.0.dev1 and 2.1.0,
\* each at two times.
FreshReleases ==
    {Release_init("foo", v, t, None).value :
        v \in {Final(<<2, 0, 0>>), Pre(<<2, 1, 0>>, 1),
               Version(0, <<2, 1, 0>>, 2, Absent, 1), Pre(<<2, 1, 0>>, 2),
               Dev(<<2, 1, 0>>, 1), Final(<<2, 1, 0>>)},
        t \in 0..1}

InitInferAndSet ==
    /\ pc = "start"
    /\ args \in [releases : {ReleaseSet("foo", T) :
                                T \in SubsetsUpTo(FreshReleases, MaxReleases)}]
    /\ result = Ok(EmptyReleaseSet)

InferAndSetSuccessor ==
    /\ pc = "start"
    /\ pc' = "infer_and_set_successor"
    /\ result' = infer_and_set_successor(args.releases)
    /\ UNCHANGED args

NextInferAndSet == InferAndSetSuccessor

SpecInferAndSet == InitInferAndSet /\ [][NextInferAndSet]_vars

C28_RelativeLevelsMatchFixed ==
    (pc = "index" /\ args.version.release[1] # 0) =>
        /\ args.level = REL_MAJOR => result = Level_index(MAJOR, args.version)
        /\ args.level = REL_MINOR => result = Level_index(MINOR, args.version)
        /\ args.level = REL_MICRO => result = Level_index(MICRO, args.version)

(***************************************************************************)
(* Claims about what count keeps of the maximum.                           *)
(***************************************************************************)
\* The releases of S that have the maximum version.
MaximumReleases(S) == {r \in S : \A q \in S : ~VersionLt(r.version, q.version)}

\* The maximum version of S sorts below its own floor at the level: a pre-
\* or dev-release whose release segments after the level are all zero.
MaximumBelowItsFloor(level, S) ==
    VersionLt(MaxVersion(CountVersionsOf(S)),
              BucketOf(TopIndex(level, S), MaxVersion(CountVersionsOf(S))))

\* C29 as stated: for a non-empty release set S, a level valid for the
\* maximum version of S and n >= 1, count(level, n, S) resolves to a
\* non-empty set that holds the release of S with the maximum version.
C29_CountKeepsMaximum ==
    CountApplied =>
        /\ ~result.err
        /\ result.value.releases # {}
        /\ MaximumReleases(args.release_set.releases) \subseteq result.value.releases

\* C29 amended: count(level, n, S) resolves, and holds the release with the
\* maximum version unless that version sorts below its own floor at the
\* level and either n = 1 or every release has that floor; in that case the
\* result is the empty set.
C29_CountKeepsMaximumNotBelowFloor ==
    CountApplied =>
        LET S == args.release_set.releases
        IN  /\ ~result.err
            /\ IF /\ MaximumBelowItsFloor(args.level, S)
                  /\ args.n = 1 \/ Cardinality(BucketsOf(args.level, S)) = 1
               THEN result.value.releases = {}
               ELSE /\ result.value.releases # {}
                    /\ MaximumReleases(S) \subseteq result.value.releases

\* C29 witness: the maximum is a pre-release below its floor, kept because
\* two lines are counted; and it is not the only release kept.
C29_Witness ==
    /\ CountApplied
    /\ ~result.err
    /\ MaximumBelowItsFloor(args.level, args.release_set.releases)
    /\ args.n >= 2
    /\ MaximumReleases(args.release_set.releases) \subseteq result.value.releases
    /\ Cardinality(result.value.releases) >= 2

(***************************************************************************)
(* Claims about the order of the operands of compose.                      *)
(***************************************************************************)
\* C30: compose is commutative: compose(a, b) fails iff compose(b, a)
\* fails, and when both succeed the two results are equal.
C30_ComposeCommutative ==
    pc = "compose" =>
        /\ result.err <=> compose(args.rhs, args.lhs).err
        /\ ~result.err => result = compose(args.rhs, args.lhs)

\* C30 amended: compose(a, b) fails iff compose(b, a) fails; when both
\* succeed the results are equal in everything but the marker, and the
\* markers are equal unless both operands carry a marker and the two
\* differ: then the marker is the conjunction in the order of the operands.
C30_ComposeCommutativeUpToMarker ==
    pc = "compose" =>
        LET swapped == compose(args.rhs, args.lhs)
            l == args.lhs.marker
            r == args.rhs.marker
        IN  /\ result.err <=> swapped.err
            /\ ~result.err =>
                  /\ [result.value EXCEPT !.marker = NoMarker]
                        = [swapped.value EXCEPT !.marker = NoMarker]
                  /\ IF /\ result.value.kind \in RequirementKinds
                        /\ l # NoMarker /\ r # NoMarker /\ l # r
                     THEN /\ result.value.marker = MarkerAnd(l, r)
                          /\ swapped.value.marker = MarkerAnd(r, l)
                          /\ result.value.marker # swapped.value.marker
                     ELSE result.value.marker = swapped.value.marker

\* C30 witness: both operands bring a marker, an extra and an atom of their
\* own; the two orders differ in the marker only.
C30_Witness ==
    /\ pc = "compose"
    /\ ~result.err
    /\ args.lhs.marker # NoMarker
    /\ args.rhs.marker # NoMarker
    /\ args.lhs.marker # args.rhs.marker
    /\ args.lhs.extras # args.rhs.extras
    /\ args.lhs.specifiers # args.rhs.specifiers
    /\ args.lhs.specifiers # {} /\ args.rhs.specifiers # {}
    /\ result.value.marker # compose(args.rhs, args.lhs).value.marker

====
